---- MODULE Spec2Model ----
(***************************************************************************)
(* A model of komm's trellis engine: the finite-state (Mealy) machine of   *)
(* FiniteStateMachine.py with process, viterbi and viterbi_streaming, the  *)
(* ConvolutionalStreamDecoder built on it, and the termination strategies  *)
(* of terminations.py.                                                     *)
(*                                                                         *)
(* Tables keep the source's 0-based indices (functions over 0..N-1);       *)
(* symbol sequences are TLA+ sequences, so entry t of the source is entry  *)
(* t+1 here.                                                               *)
(***************************************************************************)
EXTENDS Integers, Sequences, FiniteSets, TLC

VARIABLES
    fsm,      \* the constructed FiniteStateMachine (tables and edge tables)
    call,     \* the last operation applied: its name, arguments and result
    decoder,  \* the ConvolutionalStreamDecoder's attributes
    memory,   \* the streaming decoder's MetricMemory: paths and metrics
    stream,   \* what the streaming decoder has absorbed and emitted so far
    source,   \* the transmitter feeding the decoder: message sent, encoder state
    strategy  \* the termination strategy: its kind, convolutional code and num_blocks

vars == <<fsm, call, decoder, memory, stream, source, strategy>>

(***************************************************************************)
(* Bounds of the model.                                                    *)
(***************************************************************************)
\* longest input / observed sequence handed to process and viterbi
MaxLen == 3

\* np.inf, as a number above every finite metric the bounds allow
Infinity == 99

Range(n) == 0 .. (n - 1)

\* all sequences over alphabet A of length at most n
SeqsUpTo(A, n) == UNION {[1 .. l -> A] : l \in 0 .. n}

Min(a, b) == IF a < b THEN a ELSE b

(***************************************************************************)
(* FiniteStateMachine: construction.                                       *)
(***************************************************************************)
num_states(next_states) == Cardinality(DOMAIN next_states)

num_input_symbols(next_states) == Cardinality(DOMAIN next_states[0])

\* num_output_symbols: int(np.amax(self.outputs))
num_output_symbols(outputs) ==
    CHOOSE v \in {outputs[st][x] : st \in DOMAIN outputs, x \in DOMAIN outputs[0]} :
        \A st \in DOMAIN outputs : \A x \in DOMAIN outputs[st] : outputs[st][x] <= v

\* a pass that keeps the first input written at [state_from, state_to]
RECURSIVE EdgeRowFirstWins(_, _, _, _, _)
EdgeRowFirstWins(next_states, labels, state_from, x, row) ==
    IF x >= num_input_symbols(next_states) THEN row
    ELSE EdgeRowFirstWins(next_states, labels, state_from, x + 1,
            IF row[next_states[state_from][x]] # -1 THEN row
            ELSE [row EXCEPT ![next_states[state_from][x]] = labels[state_from][x]])

\* One pass of the inner loop of __attrs_post_init__ over the inputs x, x+1, ...
\* of row state_from: a later input overwrites an earlier one.
RECURSIVE EdgeRow(_, _, _, _, _)
EdgeRow(next_states, labels, state_from, x, row) ==
    IF x >= num_input_symbols(next_states) THEN row
    ELSE EdgeRow(next_states, labels, state_from, x + 1,
                 [row EXCEPT ![next_states[state_from][x]] = labels[state_from][x]])

\* input_edges: -1 everywhere, then the input x written at [state_from, state_to]
InputEdges(next_states) ==
    [state_from \in DOMAIN next_states |->
        EdgeRow(next_states,
                [s \in DOMAIN next_states |-> [x \in DOMAIN next_states[s] |-> x]],
                state_from, 0, [s1 \in DOMAIN next_states |-> -1])]

\* output_edges: -1 everywhere, then outputs[state_from, x] at [state_from, state_to]
OutputEdges(next_states, outputs) ==
    [state_from \in DOMAIN next_states |->
        EdgeRow(next_states, outputs, state_from, 0,
                [s1 \in DOMAIN next_states |-> -1])]

FiniteStateMachine(next_states, outputs) ==
    [next_states  |-> next_states,
     outputs      |-> outputs,
     input_edges  |-> InputEdges(next_states),
     output_edges |-> OutputEdges(next_states, outputs)]

\* the machine of the class docstring
DocMachine ==
    FiniteStateMachine(
        [s \in Range(4) |-> [x \in Range(2) |->
            (<<0, 1, 2, 3, 0, 1, 2, 3>>)[2 * s + x + 1]]],
        [s \in Range(4) |-> [x \in Range(2) |->
            (<<0, 3, 1, 2, 3, 0, 2, 1>>)[2 * s + x + 1]]])

\* the input sequence of the docstring example of process
DocInput == <<1, 1, 0, 1, 0>>

\* every machine with two states, two input symbols and outputs in {0, 1}
SmallMachines ==
    {FiniteStateMachine(ns, os) :
        ns \in [Range(2) -> [Range(2) -> Range(2)]],
        os \in [Range(2) -> [Range(2) -> Range(2)]]}

Machines == SmallMachines \cup {DocMachine}

States(m) == DOMAIN m.next_states

Inputs(m) == DOMAIN m.next_states[0]

(***************************************************************************)
(* FiniteStateMachine.process                                              *)
(***************************************************************************)
\* the loop body with the two table reads in the wrong order: the output is
\* read at the state already advanced
RECURSIVE ProcessLoopAdvanceFirst(_, _, _, _)
ProcessLoopAdvanceFirst(m, input_sequence, s, output_sequence) ==
    IF input_sequence = <<>> THEN [output_sequence |-> output_sequence, final_state |-> s]
    ELSE LET x  == Head(input_sequence)
             s2 == m.next_states[s][x]
             y  == m.outputs[s2][x]
         IN  ProcessLoopAdvanceFirst(m, Tail(input_sequence), s2, Append(output_sequence, y))

\* for t, x in ndenumerate(input_sequence): y = outputs[s, x]; s = next_states[s, x]
RECURSIVE ProcessLoop(_, _, _, _)
ProcessLoop(m, input_sequence, s, output_sequence) ==
    IF input_sequence = <<>> THEN [output_sequence |-> output_sequence, final_state |-> s]
    ELSE LET x == Head(input_sequence)
             y == m.outputs[s][x]
         IN  ProcessLoop(m, Tail(input_sequence), m.next_states[s][x],
                         Append(output_sequence, y))

process(m, input_sequence, initial_state) ==
    CHOOSE ret \in {ProcessLoop(m, xs, s, <<>>) :
                        xs \in {input_sequence}, s \in {initial_state}} : TRUE

NoCall == [op |-> "none"]

NoMemory == [paths |-> <<>>, metrics |-> <<>>]

NoDecoder == [traceback_length |-> 0]

NoSource == [message |-> <<>>, encoder_state |-> 0, flushed |-> 0]

NoStrategy == [kind |-> "none"]

NoStream == [absorbed |-> <<>>, emitted |-> <<>>, converged |-> TRUE]

\* a machine constructed from its two tables, no decoder on it
Constructed ==
    /\ fsm \in Machines
    /\ decoder = NoDecoder
    /\ memory = NoMemory
    /\ source = NoSource
    /\ strategy = NoStrategy
    /\ stream = NoStream

ProcessInputs(m) ==
    SeqsUpTo(Inputs(m), MaxLen) \cup (IF m = DocMachine THEN {DocInput} ELSE {})

\* a constructed machine and the arguments of a call of process
InitProcess ==
    /\ Constructed
    /\ \E initial_state \in States(fsm) :
       \E input_sequence \in ProcessInputs(fsm) :
            call = [op |-> "process", returned |-> FALSE,
                    input_sequence |-> input_sequence,
                    initial_state |-> initial_state]

\* the call fsm.process(input_sequence, initial_state)
Process ==
    /\ call.op = "process"
    /\ ~call.returned
    /\ call' = [call EXCEPT !.returned = TRUE] @@
               [ret |-> process(fsm, call.input_sequence, call.initial_state)]
    /\ UNCHANGED <<fsm, decoder, memory, stream, source, strategy>>

NextProcess == Process

SpecProcess == InitProcess /\ [][NextProcess]_vars

(***************************************************************************)
(* C1: process replays the tables. After every call process(x, s_i) there  *)
(* is a state trajectory s_0 .. s_L with s_0 = s_i and s_{t+1} =           *)
(* next_states[s_t, x_t] such that the returned output is y_t =            *)
(* outputs[s_t, x_t] for all t < L and the returned final state is s_L;    *)
(* for L = 0 the output is empty and the final state is s_i; and the       *)
(* docstring example returns ([3, 2, 2, 0, 1], 2).                         *)
(***************************************************************************)
IsReplay(m, x, s_i, ret) ==
    LET L == Len(x) IN
    /\ Len(ret.output_sequence) = L
    /\ \E s \in [0 .. L -> States(m)] :
        /\ s[0] = s_i
        /\ \A t \in 0 .. (L - 1) :
            /\ s[t + 1] = m.next_states[s[t]][x[t + 1]]
            /\ ret.output_sequence[t + 1] = m.outputs[s[t]][x[t + 1]]
        /\ ret.final_state = s[L]

C1_ProcessReplaysTables ==
    call.op = "process" /\ call.returned =>
        /\ IsReplay(fsm, call.input_sequence, call.initial_state, call.ret)
        /\ (call.input_sequence = <<>> =>
                /\ call.ret.output_sequence = <<>>
                /\ call.ret.final_state = call.initial_state)
        /\ (fsm = DocMachine /\ call.input_sequence = DocInput /\ call.initial_state = 0 =>
                /\ call.ret.output_sequence = <<3, 2, 2, 0, 1>>
                /\ call.ret.final_state = 2)

C1_Witness ==
    /\ call.op = "process"
    /\ call.returned
    /\ fsm = DocMachine
    /\ call.input_sequence = DocInput
    /\ call.initial_state = 0
    /\ call.ret.final_state = 2


(***************************************************************************)
(* FiniteStateMachine.viterbi                                              *)
(***************************************************************************)
\* longest observed sequence handed to viterbi
MaxObs == 3

\* number of output symbols a small machine's observations range over
NumObsSymbols(m) == IF m = DocMachine THEN 4 ELSE 2

\* The caller-supplied metric functions the model draws from:
\*   "hamming"  0 for the exact output and 1 otherwise
\*   "weighted" 0 for the exact output and a positive, output-dependent cost otherwise
\*   "skew"     an arbitrary table with zero entries off the diagonal
MetricFunctions == {"hamming", "weighted", "skew"}

\* int2binlist(integer, width): the bits of integer, least significant first
int2binlist(integer, width) == [i \in 1 .. width |-> (integer \div (2 ^ (i - 1))) % 2]

\* ConvolutionalStreamDecoder.cache_bit[y]: the n output bits of output symbol y
cache_bit(y, n) == int2binlist(y, n)

\* ConvolutionalStreamDecoder.metric_function for input_type "hard":
\* count_nonzero(cache_bit[y] != z), z a vector of n bits
HardMetric(y, z) == Cardinality({i \in 1 .. Len(z) : cache_bit(y, Len(z))[i] # z[i]})

metric_function(mf, y, z) ==
    CASE mf = "hamming"  -> IF y = z THEN 0 ELSE 1
      [] mf = "weighted" -> IF y = z THEN 0 ELSE 1 + y
      [] mf = "skew"     -> (2 * y + z) % 3
      [] mf = "hard"     -> HardMetric(y, z)

\* float addition on metrics: anything plus inf is inf
Add(a, b) == IF a >= Infinity \/ b >= Infinity THEN Infinity ELSE a + b

\* the edges (s0, x) in the order the two nested loops enumerate them
EdgeOrder(m) ==
    LET X == num_input_symbols(m.next_states)
    IN  [i \in 1 .. (num_states(m.next_states) * X) |-> <<(i - 1) \div X, (i - 1) % X>>]

\* the comparison of the forward pass taken as <=: a later edge wins a tie
RECURSIVE RelaxEdgesLastWins(_, _, _, _, _, _)
RelaxEdgesLastWins(m, mf, z, prev_metrics, edges, acc) ==
    IF edges = <<>> THEN acc
    ELSE LET s0 == edges[1][1]
             x  == edges[1][2]
             s1 == m.next_states[s0][x]
             y  == m.outputs[s0][x]
             candidate_metrics == Add(prev_metrics[s0], metric_function(mf, y, z))
         IN  RelaxEdgesLastWins(m, mf, z, prev_metrics, Tail(edges),
                IF candidate_metrics <= acc.metrics[s1] /\ candidate_metrics < Infinity
                THEN [metrics |-> [acc.metrics EXCEPT ![s1] = candidate_metrics],
                      choices |-> [acc.choices EXCEPT ![s1] = s0]]
                ELSE acc)

\* for s0: for s1, y in zip(next_states[s0], outputs[s0]):
\*     candidate = metrics[s0] + metric_function(y, z)
\*     if candidate < new_metrics[s1]: new_metrics[s1] = candidate; choices[s1] = s0
RECURSIVE RelaxEdges(_, _, _, _, _, _)
RelaxEdges(m, mf, z, prev_metrics, edges, acc) ==
    IF edges = <<>> THEN acc
    ELSE LET s0 == edges[1][1]
             x  == edges[1][2]
             s1 == m.next_states[s0][x]
             y  == m.outputs[s0][x]
             candidate_metrics == Add(prev_metrics[s0], metric_function(mf, y, z))
         IN  RelaxEdges(m, mf, z, prev_metrics, Tail(edges),
                IF candidate_metrics < acc.metrics[s1]
                THEN [metrics |-> [acc.metrics EXCEPT ![s1] = candidate_metrics],
                      choices |-> [acc.choices EXCEPT ![s1] = s0]]
                ELSE acc)

\* One time step of the forward pass: the new metrics row starts at inf and the
\* choices row at unset_choices (uninitialised in viterbi, zeros in viterbi_streaming).
ForwardStep(m, mf, z, prev_metrics, unset_choices) ==
    RelaxEdges(m, mf, z, prev_metrics, EdgeOrder(m),
               [metrics |-> [s \in States(m) |-> Infinity],
                choices |-> [s \in States(m) |-> unset_choices]])

\* The forward pass of viterbi over the whole observed sequence: rows 1 .. L of
\* metrics (row 0 is initial_metrics) and rows 0 .. L-1 of choices. np.empty leaves
\* choices uninitialised: a cell the loop never writes holds the value garbage.
RECURSIVE ViterbiForward(_, _, _, _, _, _)
ViterbiForward(m, mf, observed_sequence, metrics_t, garbage, choices) ==
    IF observed_sequence = <<>> THEN [metrics |-> metrics_t, choices |-> choices]
    ELSE LET step == ForwardStep(m, mf, Head(observed_sequence), metrics_t, garbage)
         IN  ViterbiForward(m, mf, Tail(observed_sequence), step.metrics, garbage,
                            Append(choices, step.choices))

\* numpy's index rule on an axis of length n: -n .. n-1 are valid, negative wraps
IndexOk(i, n) == -n <= i /\ i < n

PyIndex(i, n) == IF i < 0 THEN i + n ELSE i

\* the backtrack reading the output label of the edge instead of its input label
RECURSIVE BacktrackOutputLabel(_, _, _, _, _)
BacktrackOutputLabel(m, choices, t, s1, column) ==
    LET S == num_states(m.next_states) IN
    IF t = 0 THEN [raised |-> FALSE, column |-> column]
    ELSE LET s0 == choices[t][PyIndex(s1, S)] IN
         IF ~IndexOk(s0, S) THEN [raised |-> TRUE, column |-> <<>>]
         ELSE BacktrackOutputLabel(m, choices, t - 1, s0,
                        <<m.output_edges[PyIndex(s0, S)][PyIndex(s1, S)]>> \o column)

\* Backtrack of one final state: for t in reversed(range(L)): s0 = choices[t, s1];
\* hat[t] = input_edges[s0, s1]; s1 = s0. An index out of bounds raises IndexError.
RECURSIVE Backtrack(_, _, _, _, _)
Backtrack(m, choices, t, s1, column) ==
    LET S == num_states(m.next_states) IN
    IF t = 0 THEN [raised |-> FALSE, column |-> column]
    ELSE LET s0 == choices[t][PyIndex(s1, S)] IN
         IF ~IndexOk(s0, S) THEN [raised |-> TRUE, column |-> <<>>]
         ELSE Backtrack(m, choices, t - 1, s0,
                        <<m.input_edges[PyIndex(s0, S)][PyIndex(s1, S)]>> \o column)

viterbi(m, observed_sequence, mf, initial_metrics, garbage) ==
    LET L       == Len(observed_sequence)
        forward == ViterbiForward(m, mf, observed_sequence, initial_metrics, garbage, <<>>)
        back    == [final_state \in States(m) |->
                        Backtrack(m, forward.choices, L, final_state, <<>>)]
    IN  IF \E final_state \in States(m) : back[final_state].raised
        THEN [raised |-> TRUE]
        ELSE [raised |-> FALSE,
              input_sequences_hat |-> [final_state \in States(m) |-> back[final_state].column],
              final_metrics |-> forward.metrics]

\* initial_metrics=None: 0.0 for all states
DefaultMetrics(m) == [s \in States(m) |-> 0]

\* metrics pinning the start state s_i: 0 there, inf elsewhere
PinnedMetrics(m, s_i) == [s \in States(m) |-> IF s = s_i THEN 0 ELSE Infinity]

InitialMetrics(m) ==
    {DefaultMetrics(m)} \cup {PinnedMetrics(m, s) : s \in States(m)}
    \cup (IF m = DocMachine THEN {} ELSE [States(m) -> {0, 1, Infinity}])

\* values an uninitialised cell of choices may hold: a valid index, a negative one
\* that wraps, and one out of bounds
Garbage(m) == {-1, 0, num_states(m.next_states)}

\* a constructed machine and the arguments of a call of viterbi
InitViterbi ==
    /\ Constructed
    /\ \E observed_sequence \in SeqsUpTo(Range(NumObsSymbols(fsm)), MaxObs) :
       \E mf \in MetricFunctions :
       \E initial_metrics \in InitialMetrics(fsm) :
            call = [op |-> "viterbi", returned |-> FALSE,
                    observed_sequence |-> observed_sequence,
                    metric_function |-> mf,
                    initial_metrics |-> initial_metrics]

\* the call fsm.viterbi(observed_sequence, metric_function, initial_metrics)
Viterbi ==
    /\ call.op = "viterbi"
    /\ ~call.returned
    /\ \E garbage \in Garbage(fsm) :
        call' = [call EXCEPT !.returned = TRUE] @@
                [ret |-> viterbi(fsm, call.observed_sequence, call.metric_function,
                                 call.initial_metrics, garbage)]
    /\ UNCHANGED <<fsm, decoder, memory, stream, source, strategy>>

NextViterbi == Viterbi

SpecViterbi == InitViterbi /\ [][NextViterbi]_vars


(***************************************************************************)
(* Runs of the machine, stated directly on the tables: the reference the   *)
(* decoders are compared with.                                             *)
(***************************************************************************)
\* the state after the first t symbols of x, started in s0
RECURSIVE RunState(_, _, _, _)
RunState(m, s0, x, t) ==
    IF t = 0 THEN s0
    ELSE m.next_states[RunState(m, s0, x, t - 1)][x[t]]

\* the output sequence of the run of x from s0
RunOutputs(m, s0, x) ==
    [t \in 1 .. Len(x) |-> m.outputs[RunState(m, s0, x, t - 1)][x[t]]]

\* the summed cost of the first t outputs of the run against the observations z
RECURSIVE RunCost(_, _, _, _, _, _)
RunCost(m, mf, z, s0, x, t) ==
    IF t = 0 THEN 0
    ELSE RunCost(m, mf, z, s0, x, t - 1)
         + metric_function(mf, m.outputs[RunState(m, s0, x, t - 1)][x[t]], z[t])

\* all runs of length L: a start state and an input sequence
Runs(m, L) == States(m) \X [1 .. L -> Inputs(m)]

\* the runs of length L that end in state s
RunsEndingIn(m, L, s) == {r \in Runs(m, L) : RunState(m, r[1], r[2], L) = s}

\* initial metric of the start state plus the cost of the run
TotalCost(m, mf, z, m0, r) == Add(m0[r[1]], RunCost(m, mf, z, r[1], r[2], Len(z)))

SetMin(S) == CHOOSE a \in S : \A b \in S : a <= b

\* the least total cost of a run ending in s, infinity when there is none
BestCost(m, mf, z, m0, s) ==
    LET costs == {TotalCost(m, mf, z, m0, r) : r \in RunsEndingIn(m, Len(z), s)}
    IN  IF costs = {} THEN Infinity ELSE SetMin(costs)

\* at most one edge per ordered pair of states
UniqueEdges(m) ==
    \A s0 \in States(m) : \A x1, x2 \in Inputs(m) :
        m.next_states[s0][x1] = m.next_states[s0][x2] => x1 = x2

\* every state is the target of some edge
EveryStateEntered(m) ==
    \A s1 \in States(m) : \E s0 \in States(m) : \E x \in Inputs(m) :
        m.next_states[s0][x] = s1

\* final metrics and columns of a returned viterbi result are the optimum
ViterbiOptimal(m, z, mf, m0, ret) ==
    \A s \in States(m) :
        /\ ret.final_metrics[s] = BestCost(m, mf, z, m0, s)
        /\ ret.final_metrics[s] < Infinity =>
            \E s0 \in States(m) :
                LET r == <<s0, ret.input_sequences_hat[s]>> IN
                /\ r \in RunsEndingIn(m, Len(z), s)
                /\ TotalCost(m, mf, z, m0, r) = ret.final_metrics[s]

ViterbiReturned == call.op = "viterbi" /\ call.returned

(***************************************************************************)
(* C2: block Viterbi optimality. For every machine with at most one edge   *)
(* per ordered pair of states, every observed sequence, cost function and  *)
(* initial-metrics vector, viterbi returns final_metrics[s] = the least    *)
(* total cost of a run ending in s (infinity when there is none), and for  *)
(* every s with a finite final metric column s is an input sequence of a   *)
(* run ending in s that attains it.                                        *)
(***************************************************************************)
C2_ViterbiOptimality ==
    ViterbiReturned /\ UniqueEdges(fsm) =>
        /\ ~call.ret.raised
        /\ ViterbiOptimal(fsm, call.observed_sequence, call.metric_function,
                          call.initial_metrics, call.ret)

\* C2 on the calls that return a result: whenever no uninitialised choice makes
\* the backtrack raise, the returned metrics and columns are the optimum.
C2_OptimalWhenReturned ==
    ViterbiReturned /\ UniqueEdges(fsm) /\ ~call.ret.raised =>
        ViterbiOptimal(fsm, call.observed_sequence, call.metric_function,
                       call.initial_metrics, call.ret)

(***************************************************************************)
(* C3: noiseless recovery. With z the outputs and s_f the final state of   *)
(* process(x, s_i), a cost that is 0 exactly for the exact output, and     *)
(* default initial metrics, viterbi returns final_metrics[s_f] = 0 and     *)
(* column s_f equal to x.                                                  *)
(***************************************************************************)
ZeroOnlyIfExact(mf) == mf \in {"hamming", "weighted"}

\* the runs (s_i, x) whose output sequence is the observed sequence
NoiselessRuns(m, z) == {r \in Runs(m, Len(z)) : RunOutputs(m, r[1], r[2]) = z}

NoiselessCall ==
    /\ ViterbiReturned
    /\ ZeroOnlyIfExact(call.metric_function)
    /\ call.initial_metrics = DefaultMetrics(fsm)

MaxTau == 2

\* most symbols one call absorbs
MaxChunk == 2

\* most symbols a decoder absorbs in all: two more than the longest traceback
MaxStream == MaxTau + 2

\* the four-state machine absorbs one symbol less
StreamLimit(m) == IF m = DocMachine THEN MaxStream - 1 ELSE MaxStream

\* num_output_bits n and num_input_bits k of the code the machine comes from
num_output_bits(m) == IF m = DocMachine THEN 2 ELSE 1

num_input_bits(m) == 1

\* __attrs_post_init__: paths all zero, metrics all inf but 0.0 at [state, -1]
InitialMemory(m, traceback_length, state) ==
    [paths   |-> [s \in States(m) |-> [j \in 0 .. traceback_length |-> 0]],
     metrics |-> [s \in States(m) |-> [j \in 0 .. traceback_length |->
                    IF s = state /\ j = traceback_length THEN 0 ELSE Infinity]]]

\* the index -1 of a row
LastColumn(row) == Cardinality(DOMAIN row) - 1

\* a shift that keeps the oldest column and appends one: the buffer grows
RollAppend(row) ==
    [j \in 0 .. Cardinality(DOMAIN row) |-> row[j % Cardinality(DOMAIN row)]]

\* np.roll(row, shift=-1): every column moves one place left, column 0 wraps to the end
Roll(row) ==
    [j \in DOMAIN row |-> row[(j + 1) % Cardinality(DOMAIN row)]]

\* np.argmin: the first index of the least entry
ArgMin(row) == CHOOSE s \in DOMAIN row :
    /\ \A s2 \in DOMAIN row : row[s] <= row[s2]
    /\ \A s2 \in DOMAIN row : s2 < s => row[s2] > row[s]

\* a step that emits the edge at offsets 1 and 2: a delay of tau - 1
StreamingStepNextEdge(m, mf, z, mem) ==
    CHOOSE result \in
        { LET s_star == ArgMin(step.metrics)
              s0     == mem.paths[s_star][1]
              s1     == mem.paths[s_star][2 % (LastColumn(mem.paths[s_star]) + 1)]
          IN  [symbol |-> m.input_edges[s0][s1],
               memory |->
                  [metrics |-> [s \in States(m) |->
                                  [rolled_metrics[s] EXCEPT ![LastColumn(rolled_metrics[s])] =
                                      step.metrics[s]]],
                   paths   |-> [sb \in States(m) |->
                                  [j \in DOMAIN paths_copy[sb] |->
                                      IF j = LastColumn(paths_copy[sb]) THEN sb
                                      ELSE paths_copy[step.choices[sb]][j]]]]] :
            step \in {ForwardStep(m, mf, z,
                          [s \in States(m) |-> mem.metrics[s][LastColumn(mem.metrics[s])]],
                          0)},
            rolled_metrics \in {[s \in States(m) |-> Roll(mem.metrics[s])]},
            paths_copy \in {[s \in States(m) |-> Roll(mem.paths[s])]} } : TRUE

\* a step that leaves every row of paths on its own history instead of copying
\* the row of the chosen predecessor
StreamingStepKeepsOwnRow(m, mf, z, mem) ==
    CHOOSE result \in
        { LET s_star == ArgMin(step.metrics)
              s0     == mem.paths[s_star][0]
              s1     == mem.paths[s_star][1]
          IN  [symbol |-> m.input_edges[s0][s1],
               memory |->
                  [metrics |-> [s \in States(m) |->
                                  [rolled_metrics[s] EXCEPT ![LastColumn(rolled_metrics[s])] =
                                      step.metrics[s]]],
                   paths   |-> [sb \in States(m) |->
                                  [j \in DOMAIN paths_copy[sb] |->
                                      IF j = LastColumn(paths_copy[sb]) THEN sb
                                      ELSE paths_copy[sb][j]]]]] :
            step \in {ForwardStep(m, mf, z,
                          [s \in States(m) |-> mem.metrics[s][LastColumn(mem.metrics[s])]],
                          0)},
            rolled_metrics \in {[s \in States(m) |-> Roll(mem.metrics[s])]},
            paths_copy \in {[s \in States(m) |-> Roll(mem.paths[s])]} } : TRUE

\* the body of the loop of viterbi_streaming for one observed symbol z: the new
\* memory and the symbol put into input_sequences_hat[t]
StreamingStep(m, mf, z, mem) ==
    CHOOSE result \in
        { LET s_star == ArgMin(step.metrics)
              s0     == mem.paths[s_star][0]
              s1     == mem.paths[s_star][1]
          IN  [symbol |-> m.input_edges[s0][s1],
               memory |->
                  [metrics |-> [s \in States(m) |->
                                  [rolled_metrics[s] EXCEPT ![LastColumn(rolled_metrics[s])] =
                                      step.metrics[s]]],
                   paths   |-> [sb \in States(m) |->
                                  [j \in DOMAIN paths_copy[sb] |->
                                      IF j = LastColumn(paths_copy[sb]) THEN sb
                                      ELSE paths_copy[step.choices[sb]][j]]]]] :
            step \in {ForwardStep(m, mf, z,
                          [s \in States(m) |-> mem.metrics[s][LastColumn(mem.metrics[s])]],
                          0)},
            rolled_metrics \in {[s \in States(m) |-> Roll(mem.metrics[s])]},
            paths_copy \in {[s \in States(m) |-> Roll(mem.paths[s])]} } : TRUE

\* a loop that stores no symbol while the oldest metrics column is still all inf,
\* i.e. that suppresses the provisional symbols of the first tau steps
RECURSIVE StreamingLoopSkipProvisional(_, _, _, _, _, _)
StreamingLoopSkipProvisional(m, mf, observed_sequence, mem, input_sequences_hat, steps) ==
    IF observed_sequence = <<>>
    THEN [memory |-> mem, input_sequences_hat |-> input_sequences_hat, steps |-> steps]
    ELSE CHOOSE result \in
            { StreamingLoopSkipProvisional(m, mf, Tail(observed_sequence), one.memory,
                IF \A st \in States(m) : before.metrics[st][0] >= Infinity
                THEN hat
                ELSE Append(hat, one.symbol),
                Append(steps, [z |-> Head(observed_sequence), before |-> before,
                               symbol |-> one.symbol])) :
              one \in {StreamingStep(m, mf, Head(observed_sequence), mem)},
              before \in {mem}, hat \in {input_sequences_hat} } : TRUE

\* for t, z in enumerate(observed_sequence): the memory is updated in place and one
\* symbol is stored per observed symbol. steps records, for each symbol, the memory
\* read by that iteration (history only; the code keeps no such record).
RECURSIVE StreamingLoop(_, _, _, _, _, _)
StreamingLoop(m, mf, observed_sequence, mem, input_sequences_hat, steps) ==
    IF observed_sequence = <<>>
    THEN [memory |-> mem, input_sequences_hat |-> input_sequences_hat, steps |-> steps]
    ELSE CHOOSE result \in
            { StreamingLoop(m, mf, Tail(observed_sequence), one.memory,
                            Append(hat, one.symbol),
                            Append(steps, [z |-> Head(observed_sequence), before |-> before,
                                           symbol |-> one.symbol])) :
              one \in {StreamingStep(m, mf, Head(observed_sequence), mem)},
              before \in {mem}, hat \in {input_sequences_hat} } : TRUE

\* a decoder that works on a copy of the memory: the caller's memory is not updated
viterbi_streaming_on_copy(m, observed_sequence, mf, mem) ==
    [StreamingLoop(m, mf, observed_sequence, mem, <<>>, <<>>) EXCEPT !.memory = mem]

viterbi_streaming(m, observed_sequence, mf, mem) ==
    StreamingLoop(m, mf, observed_sequence, mem, <<>>, <<>>)

\* np.reshape(in0, shape=(-1, n)): the rows of n values each
Reshape(in0, n) ==
    [t \in 1 .. (Len(in0) \div n) |-> [i \in 1 .. n |-> in0[n * (t - 1) + i]]]

\* unpack(list, width): the bits of every symbol, least significant first
unpack(symbols, width) ==
    [i \in 1 .. (Len(symbols) * width) |->
        int2binlist(symbols[((i - 1) \div width) + 1], width)[((i - 1) % width) + 1]]

\* all rows of the path buffer agree on the entries at offsets 0 and 1
RowsAgreeOnOldestEdge(mem) ==
    \A sa, sb \in DOMAIN mem.paths :
        /\ mem.paths[sa][0] = mem.paths[sb][0]
        /\ mem.paths[sa][1] = mem.paths[sb][1]

\* output tables of the two-state machines a decoder is built on:
\* y = s xor x, y = x, y = s, y = s or x
StreamOutputs ==
    {[st \in Range(2) |-> [x \in Range(2) |-> (st + x) % 2]],
     [st \in Range(2) |-> [x \in Range(2) |-> x]],
     [st \in Range(2) |-> [x \in Range(2) |-> st]],
     [st \in Range(2) |-> [x \in Range(2) |-> IF st + x > 0 THEN 1 ELSE 0]]}

StreamMachines ==
    {m \in SmallMachines : m.outputs \in StreamOutputs} \cup {DocMachine}

BitSeqs(lo, hi) == UNION {[1 .. l -> {0, 1}] : l \in lo .. hi}

\* ConvolutionalStreamDecoder(convolutional_code, traceback_length, state)
InitStream ==
    /\ fsm \in StreamMachines
    /\ \E traceback_length \in 1 .. MaxTau :
       \E state \in States(fsm) :
            /\ decoder = [traceback_length |-> traceback_length, state |-> state,
                          input_type |-> "hard"]
            /\ memory = InitialMemory(fsm, traceback_length, state)
    /\ call = [op |-> "construct"]
    /\ stream = NoStream
    /\ source = NoSource
    /\ strategy = NoStrategy

\* the result of decoder(in0) and the decoder's state after it
DecoderCall(in0) ==
    LET n == num_output_bits(fsm)
        k == num_input_bits(fsm)
    IN  IF Len(in0) % n # 0
        THEN \* np.reshape raises ValueError before anything is decoded
             /\ call' = [op |-> "decode", raised |-> TRUE]
             /\ UNCHANGED <<memory, stream>>
        ELSE \E res \in {viterbi_streaming(fsm, Reshape(in0, n), decoder.input_type, memory)} :
                 /\ call' = [op |-> "decode", in0 |-> in0, raised |-> FALSE,
                             input_sequence_hat |-> res.input_sequences_hat,
                             steps |-> res.steps,
                             out0 |-> unpack(res.input_sequences_hat, k)]
                 /\ memory' = res.memory
                 /\ stream' =
                        [absorbed  |-> stream.absorbed \o Reshape(in0, n),
                         emitted   |-> stream.emitted \o res.input_sequences_hat,
                         converged |-> /\ stream.converged
                                       /\ \A i \in 1 .. Len(res.steps) :
                                            RowsAgreeOnOldestEdge(res.steps[i].before)]

\* a call decoder(in0) on a hard bit sequence
Decode ==
    \E in0 \in BitSeqs(0, num_output_bits(fsm) * MaxChunk) :
        /\ Len(stream.absorbed) + (Len(in0) \div num_output_bits(fsm)) <= StreamLimit(fsm)
        /\ DecoderCall(in0)
        /\ UNCHANGED <<fsm, decoder, source, strategy>>

NextStream == Decode

SpecStream == InitStream /\ [][NextStream]_vars


DecodeReturned == call.op = "decode" /\ ~call.raised

\* block viterbi over everything absorbed, started in the decoder's initial state
BlockOverStream(garbage) ==
    viterbi(fsm, stream.absorbed, decoder.input_type,
            PinnedMetrics(fsm, decoder.state), garbage)

\* the streaming symbols from step tau on are the block decoder's best sequence
MatchesBlock(block) ==
    /\ ~block.raised
    /\ \A t \in (decoder.traceback_length + 1) .. Len(stream.absorbed) :
        stream.emitted[t] =
            block.input_sequences_hat[ArgMin(block.final_metrics)]
                                     [t - decoder.traceback_length]

(***************************************************************************)
(* C4: streaming vs. block consistency. For a decoder with traceback       *)
(* length tau and initial state s_i that has absorbed L > tau symbols, if  *)
(* at every step all rows of the path buffer agreed on the entries at      *)
(* offsets 0 and 1, then for every t with tau <= t < L the symbol emitted  *)
(* at step t is entry t - tau of the sequence block viterbi returns over   *)
(* the whole sequence (initial metrics 0 at s_i, inf elsewhere) for its    *)
(* minimum-final-metric state.                                             *)
(***************************************************************************)
C4_StreamingMatchesBlock ==
    /\ DecodeReturned
    /\ stream.converged
    /\ Len(stream.absorbed) > decoder.traceback_length
    => \A garbage \in Garbage(fsm) :
        \A block \in {BlockOverStream(garbage)} : MatchesBlock(block)

\* C4 for a decoder started in state 0, on the block calls that return
C4_MatchesBlockFromStateZero ==
    /\ DecodeReturned
    /\ stream.converged
    /\ Len(stream.absorbed) > decoder.traceback_length
    /\ decoder.state = 0
    => \A garbage \in Garbage(fsm) :
        \A block \in {BlockOverStream(garbage)} : ~block.raised => MatchesBlock(block)

\* C4 on the block calls that return: for any traceback length tau and initial state
\* s_i, if all rows of the path buffer agreed at offsets 0 and 1 at every step, the
\* symbol emitted at each step t >= tau is entry t - tau of the block-optimal sequence
C4_MatchesBlockWhenReturned ==
    /\ DecodeReturned
    /\ stream.converged
    /\ Len(stream.absorbed) > decoder.traceback_length
    => \A garbage \in Garbage(fsm) :
        \A block \in {BlockOverStream(garbage)} : ~block.raised => MatchesBlock(block)

(***************************************************************************)
(* C6: at every step of viterbi_streaming, with s* the lowest-numbered     *)
(* state of minimum metric after the observation is absorbed, the emitted  *)
(* symbol is the input on the oldest retained edge of the survivor that    *)
(* attains that metric: the lineage stored before the shift for the        *)
(* arg-min predecessor of s*, extended by s*.                              *)
(***************************************************************************)
BestSurvivorSymbol(m, mf, z, mem) ==
    LET step   == ForwardStep(m, mf, z,
                              [s \in States(m) |-> mem.metrics[s][LastColumn(mem.metrics[s])]],
                              0)
        s_star == ArgMin(step.metrics)
        pred   == step.choices[s_star]
    IN  m.input_edges[mem.paths[pred][0]][mem.paths[pred][1]]

C6_EmitsFromBestSurvivor ==
    DecodeReturned =>
        \A i \in 1 .. Len(call.steps) :
            call.steps[i].symbol =
                BestSurvivorSymbol(fsm, decoder.input_type, call.steps[i].z,
                                   call.steps[i].before)

(***************************************************************************)
(* C7: one decoded symbol per observed symbol. Every call on an observed   *)
(* sequence of length L returns exactly L symbols, the decoder returns k   *)
(* output bits per n input values, and after any sequence of calls as many *)
(* symbols have been emitted as absorbed.                                  *)
(***************************************************************************)
C7_OneSymbolPerObservation ==
    DecodeReturned =>
        /\ Len(call.input_sequence_hat) * num_output_bits(fsm) = Len(call.in0)
        /\ Len(call.out0) = num_input_bits(fsm) * Len(call.input_sequence_hat)
        /\ Len(stream.emitted) = Len(stream.absorbed)

C7_Witness ==
    /\ DecodeReturned
    /\ Len(call.in0) = num_output_bits(fsm) * MaxChunk
    /\ Len(call.out0) = MaxChunk
    /\ Len(stream.emitted) = MaxStream

(***************************************************************************)
(* C8: bounded decode memory. From construction on and after any number of *)
(* calls the memory is exactly the two buffers metrics and paths, each of  *)
(* shape S x (tau + 1).                                                    *)
(***************************************************************************)
HasShape(buffer, S, columns) ==
    /\ DOMAIN buffer = Range(S)
    /\ \A s \in DOMAIN buffer : DOMAIN buffer[s] = Range(columns)

C8_BoundedMemory ==
    /\ DOMAIN memory = {"paths", "metrics"}
    /\ HasShape(memory.metrics, num_states(fsm.next_states), decoder.traceback_length + 1)
    /\ HasShape(memory.paths, num_states(fsm.next_states), decoder.traceback_length + 1)

C8_Witness ==
    /\ DecodeReturned
    /\ Len(stream.absorbed) = MaxStream
    /\ Len(stream.absorbed) > decoder.traceback_length + 1
    /\ C8_BoundedMemory


(***************************************************************************)
(* The docstring example of ConvolutionalStreamDecoder: the code           *)
(* [[0o7, 0o5]] decoded with traceback length 10 from an error-free        *)
(* stream.                                                                 *)
(***************************************************************************)
\* longest message sent through the encoder
MaxMessage == 11

\* traceback_length=10 of the docstring example
DocTraceback == 10

\* the machine of komm.ConvolutionalCode([[0o7, 0o5]]): the docstring machine
Code75Machine == DocMachine

\* the message whose encoding the docstring example decodes
DocMessage == <<1, 0, 1, 1, 1, 0, 1, 1, 0, 0>>

\* the first call's argument in the docstring example
DocEncoded == <<1, 1, 1, 0, 0, 0, 0, 1, 1, 0, 0, 1, 0, 0, 0, 1, 0, 1, 1, 1>>

Zeros(n) == [i \in 1 .. n |-> 0]

InitDelay ==
    /\ fsm = Code75Machine
    /\ decoder = [traceback_length |-> DocTraceback, state |-> 0, input_type |-> "hard"]
    /\ memory = InitialMemory(fsm, DocTraceback, 0)
    /\ call = [op |-> "construct"]
    /\ stream = NoStream
    /\ source = NoSource
    /\ strategy = NoStrategy

\* the error-free transmission of input bits: the encoder runs on from its state and
\* its output symbols reach the decoder as n hard bits each
Transmit(bits, flushing) ==
    \E enc \in {process(fsm, bits, source.encoder_state)} :
        /\ DecoderCall(unpack(enc.output_sequence, num_output_bits(fsm)))
        /\ source' = [message |-> IF flushing THEN source.message ELSE source.message \o bits,
                      encoder_state |-> enc.final_state,
                      flushed |-> IF flushing THEN source.flushed + Len(bits) ELSE 0]
        /\ UNCHANGED <<fsm, decoder, strategy>>

\* a call of the decoder on the encoding of the next message bits
DecodeMessage ==
    /\ source.flushed = 0
    /\ \E bits \in BitSeqs(1, MaxChunk) \cup (IF source.message = <<>> THEN {DocMessage} ELSE {}) :
        /\ bits = DocMessage \/ Len(source.message) + Len(bits) <= MaxMessage
        /\ Transmit(bits, FALSE)

\* a call of the decoder on the encoding of zero input bits that follow the message:
\* one symbol, or all that remain of the tau
DecodeFlush ==
    /\ source.flushed < decoder.traceback_length
    /\ \E n \in {1, decoder.traceback_length - source.flushed} :
        Transmit(Zeros(n), TRUE)

NextDelay == DecodeMessage \/ DecodeFlush

SpecDelay == InitDelay /\ [][NextDelay]_vars

(***************************************************************************)
(* C5: fixed decoding delay on an error-free stream. For the code          *)
(* [[0o7, 0o5]] and a fresh hard-input decoder of traceback length 10 in   *)
(* state 0, feeding the error-free encoding of a message u followed by 10  *)
(* zero input bits, in one call or several, yields exactly 10 zero bits    *)
(* followed by u; the docstring example decodes to ten zeros and then      *)
(* [1,0,1,1,1,0,1,1,0,0].                                                  *)
(***************************************************************************)
C5_FixedDelay ==
    /\ call.op = "decode" => ~call.raised
    /\ Len(stream.emitted) = Len(source.message) + source.flushed
    /\ \A j \in 1 .. Len(stream.emitted) :
        stream.emitted[j] =
            IF j <= decoder.traceback_length THEN 0
            ELSE source.message[j - decoder.traceback_length]
    /\ (call.op = "decode" /\ source.message = DocMessage /\ Len(stream.absorbed) = 10
            /\ Len(call.in0) = 20 =>
                /\ call.in0 = DocEncoded
                /\ call.out0 = Zeros(10))
    /\ (call.op = "decode" /\ source.message = DocMessage /\ call.in0 = Zeros(20) =>
            call.out0 = DocMessage)

C5_Witness ==
    /\ call.op = "decode"
    /\ source.message = DocMessage
    /\ source.flushed = DocTraceback
    /\ call.in0 = Zeros(20)
    /\ call.out0 = DocMessage
    /\ stream.emitted = Zeros(10) \o DocMessage

(***************************************************************************)
(* Termination strategies (terminations.py). Matrices are sequences of     *)
(* rows; vectors are rows. numpy products are integer products, reduced    *)
(* modulo 2 where the code writes % 2.                                     *)
(***************************************************************************)
\* largest num_blocks h
MaxBlocks == 3

RECURSIVE Dot(_, _, _)
Dot(a, b, k) == IF k = 0 THEN 0 ELSE a[k] * b[k] + Dot(a, b, k - 1)

\* vector @ matrix
VecMat(v, M) ==
    CHOOSE product \in
        {[j \in 1 .. Len(N[1]) |-> Dot(w, [k \in 1 .. Len(N) |-> N[k][j]], Len(w))] :
            w \in {v}, N \in {M}} : TRUE

\* M @ N
MatMul(M, N) ==
    CHOOSE product \in
        {[i \in 1 .. Len(L) |-> VecMat(L[i], R)] : L \in {M}, R \in {N}} : TRUE

MatAdd(M, N) == [i \in 1 .. Len(M) |-> [j \in 1 .. Len(M[i]) |-> M[i][j] + N[i][j]]]

\* v % 2 and M % 2
VecMod2(v) == [j \in 1 .. Len(v) |-> v[j] % 2]

Mod2(M) == [i \in 1 .. Len(M) |-> VecMod2(M[i])]

\* np.eye(rows, columns, dtype=int)
Eye(rows, columns) == [i \in 1 .. rows |-> [j \in 1 .. columns |-> IF i = j THEN 1 ELSE 0]]

\* numpy.linalg.matrix_power(M, n) on an integer matrix
RECURSIVE matrix_power(_, _)
matrix_power(M, n) == IF n = 0 THEN Eye(Len(M), Len(M)) ELSE MatMul(matrix_power(M, n - 1), M)

\* np.vstack([B_mat @ matrix_power(A_mat, j) % 2 for j in range(from, to - 1, -1)])
RECURSIVE AnBStack(_, _, _, _)
AnBStack(A_mat, B_mat, from, to) ==
    IF from < to THEN <<>>
    ELSE Mod2(MatMul(B_mat, matrix_power(A_mat, from))) \o AnBStack(A_mat, B_mat, from - 1, to)

\* pseudo_inverse(M) of komm._util.matrices, operating modulo 2: a matrix G with
\* M G M = M; the inverse of M when M is invertible over GF(2)
pseudo_inverse(M) ==
    CHOOSE G \in UNION {{P \in [1 .. Len(R[1]) -> [1 .. Len(R) -> {0, 1}]] :
                            Mod2(MatMul(MatMul(R, P), R)) = R} : R \in {Mod2(M)}} : TRUE

Invertible(M) ==
    \E R \in {Mod2(M)} :
        /\ Len(R) = Len(R[1])
        /\ \E G \in [1 .. Len(R) -> [1 .. Len(R) -> {0, 1}]] :
            Mod2(MatMul(R, G)) = Eye(Len(R), Len(R))

\* binlist2int and pack of komm._util.bit_operations, least significant bit first
RECURSIVE binlist2int(_)
binlist2int(binlist) ==
    IF binlist = <<>> THEN 0 ELSE Head(binlist) + 2 * binlist2int(Tail(binlist))

pack(bits, width) ==
    [t \in 1 .. (Len(bits) \div width) |->
        binlist2int([i \in 1 .. width |-> bits[width * (t - 1) + i]])]

(***************************************************************************)
(* The convolutional encoder: k0 input bits and n0 output bits per block,  *)
(* overall constraint length nu, memory order mu, and the state-space      *)
(* matrices of state' = state A + x B, y = state C + x D over GF(2).       *)
(***************************************************************************)
\* one input, a shift register of nu cells with feedback taps q[1..nu], and output
\* i with taps p[i][1] (on the register input) and p[i][j + 1] (on cell j)
ShiftRegisterCode(nu, q, p) ==
    [num_input_bits  |-> 1,
     num_output_bits |-> Len(p),
     overall_constraint_length |-> nu,
     memory_order    |-> nu,
     A |-> [j \in 1 .. nu |-> [c \in 1 .. nu |->
              IF c = 1 THEN q[j] ELSE IF c = j + 1 THEN 1 ELSE 0]],
     B |-> <<[c \in 1 .. nu |-> IF c = 1 THEN 1 ELSE 0]>>,
     C |-> [j \in 1 .. nu |-> [i \in 1 .. Len(p) |-> (p[i][j + 1] + p[i][1] * q[j]) % 2]],
     D |-> <<[i \in 1 .. Len(p) |-> p[i][1]]>>]

\* two inputs with one memory cell each and no feedback: the cells hold the last block
TwoInputCode(C, D) ==
    [num_input_bits  |-> 2,
     num_output_bits |-> Len(D[1]),
     overall_constraint_length |-> 2,
     memory_order    |-> 1,
     A |-> <<<<0, 0>>, <<0, 0>>>>,
     B |-> Eye(2, 2),
     C |-> C,
     D |-> D]

\* two inputs with one memory cell each, both fed back: each cell holds the running
\* sum of its input
TwoInputFeedbackCode(C, D) ==
    [num_input_bits  |-> 2,
     num_output_bits |-> Len(D[1]),
     overall_constraint_length |-> 2,
     memory_order    |-> 1,
     A |-> Eye(2, 2),
     B |-> Eye(2, 2),
     C |-> C,
     D |-> D]

\* komm.ConvolutionalCode([[0o7, 0o5]])
Code75 == ShiftRegisterCode(2, <<0, 0>>, <<<<1, 1, 1>>, <<1, 0, 1>>>>)

\* komm.ConvolutionalCode([[0o3, 0o2, 0o3], [0o2, 0o1, 0o1]])
Code323211 == TwoInputCode(<<<<1, 1, 1>>, <<1, 0, 0>>>>, <<<<1, 0, 1>>, <<0, 1, 1>>>>)

Taps(n) == [1 .. n -> {0, 1}]

\* the encoders with one input, two outputs and constraint length nu <= 2 whose
\* polynomials reach degree nu, and two encoders with two inputs
ConvolutionalCodes ==
    {ShiftRegisterCode(nu, q, <<p1, p2>>) :
        nu \in {1}, q \in Taps(1),
        p1 \in {t \in Taps(2) : t[2] = 1}, p2 \in Taps(2)}
    \cup
    {ShiftRegisterCode(nu, q, <<p1, p2>>) :
        nu \in {2}, q \in Taps(2),
        p1 \in {t \in Taps(3) : t[3] = 1}, p2 \in {t \in Taps(3) : t[1] = 1}}
    \cup
    {Code323211,
     TwoInputCode(<<<<1, 0>>, <<1, 1>>>>, <<<<1, 1>>, <<0, 1>>>>),
     TwoInputFeedbackCode(<<<<1, 0>>, <<0, 1>>>>, <<<<1, 1>>, <<0, 1>>>>)}

\* ConvolutionalCode.finite_state_machine(): the tables of the state-space equations,
\* states, inputs and outputs numbered by their bits, least significant first
finite_state_machine(code) ==
    LET nu == code.overall_constraint_length
        Next(s, x) == VecMod2(VecMat(int2binlist(s, nu) \o int2binlist(x, code.num_input_bits),
                                     code.A \o code.B))
        Out(s, x)  == VecMod2(VecMat(int2binlist(s, nu) \o int2binlist(x, code.num_input_bits),
                                     code.C \o code.D))
    IN  FiniteStateMachine(
            [s \in Range(2 ^ nu) |-> [x \in Range(2 ^ code.num_input_bits) |->
                binlist2int(Next(s, x))]],
            [s \in Range(2 ^ nu) |-> [x \in Range(2 ^ code.num_input_bits) |->
                binlist2int(Out(s, x))]])

StrategyKinds == {"DirectTruncation", "ZeroTermination", "TailBiting"}

\* a tail of literal zeros
tail_projector_zeros(st) ==
    [r \in 1 .. (st.num_blocks * st.convolutional_code.num_input_bits) |->
        [c \in 1 .. (st.convolutional_code.memory_order
                      * st.convolutional_code.num_input_bits) |-> 0]]

\* ZeroTermination._tail_projector
tail_projector(st) ==
    LET h  == st.num_blocks
        mu == st.convolutional_code.memory_order
        A_mat == st.convolutional_code.A
        B_mat == st.convolutional_code.B
        AnB_message == AnBStack(A_mat, B_mat, mu + h - 1, mu)
        AnB_tail    == AnBStack(A_mat, B_mat, mu - 1, 0)
    IN  Mod2(MatMul(AnB_message, pseudo_inverse(AnB_tail)))

\* the argument of pseudo_inverse in TailBiting._zs_multiplier:
\* matrix_power(A_mat, h) + np.eye(nu, dtype=int) % 2
zs_matrix(st) ==
    LET nu == st.convolutional_code.overall_constraint_length
    IN  MatAdd(matrix_power(st.convolutional_code.A, st.num_blocks), Mod2(Eye(nu, nu)))

\* TailBiting._zs_multiplier
zs_multiplier(st) == pseudo_inverse(zs_matrix(st))

\* initial_state(input_bits) of the three strategies
initial_state(st, m, input_bits) ==
    IF st.kind = "TailBiting"
    THEN LET nu == st.convolutional_code.overall_constraint_length
             zs_response == process(m, input_bits, 0).final_state
         IN  binlist2int(VecMod2(VecMat(int2binlist(zs_response, nu), zs_multiplier(st))))
    ELSE 0

\* pre_process_input(input_bits) of the three strategies
pre_process_input(st, input_bits) ==
    LET n == st.convolutional_code.num_input_bits
    IN  IF st.kind = "ZeroTermination"
        THEN LET tail == VecMod2(VecMat(input_bits, tail_projector(st)))
             IN  pack(input_bits \o tail, n)
        ELSE pack(input_bits, n)

\* a length that leaves out the tail blocks of zero termination
codeword_length_no_tail(st) ==
    st.num_blocks * st.convolutional_code.num_output_bits

\* codeword_length() of the three strategies
codeword_length(st) ==
    LET h == st.num_blocks
        n == st.convolutional_code.num_output_bits
        m == st.convolutional_code.memory_order
    IN  IF st.kind = "ZeroTermination" THEN (h + m) * n ELSE h * n

\* the dimension of the block code: h blocks of k0 message bits
dimension(st) == st.num_blocks * st.convolutional_code.num_input_bits

\* the encoding map of the block code, by direct simulation: the machine runs from
\* initial_state(u) on pre_process_input(u) and its outputs are unpacked to bits
enc_mapping(st, m, u) ==
    unpack(process(m, pre_process_input(st, u), initial_state(st, m, u)).output_sequence,
           st.convolutional_code.num_output_bits)

\* a roll to the left: entry j moves to (j - shift) mod n
NpRollLeft(row, shift) ==
    [j \in 1 .. Len(row) |-> row[((j - 1 + shift) % Len(row)) + 1]]

\* np.roll(row, shift) along the row: entry j moves to (j + shift) mod n
NpRoll(row, shift) ==
    [j \in 1 .. Len(row) |-> row[((j - 1 - shift) % Len(row)) + 1]]

\* _base_generator_matrix(code, convolutional_code, num_blocks)
base_generator_matrix(st, m) ==
    LET k0 == st.convolutional_code.num_input_bits
        n0 == st.convolutional_code.num_output_bits
        k  == dimension(st)
        top_rows == [i \in 1 .. k0 |-> enc_mapping(st, m, Eye(k0, k)[i])]
    IN  [r \in 1 .. k |->
            NpRoll(top_rows[((r - 1) % k0) + 1], n0 * ((r - 1) \div k0))]

\* the base matrix under every strategy: the rows of later blocks keep what the
\* roll wrapped round to their front
generator_matrix_unmasked(st, m) == base_generator_matrix(st, m)

\* generator_matrix(code) of the three strategies
generator_matrix(st, m) ==
    LET k0 == st.convolutional_code.num_input_bits
        n0 == st.convolutional_code.num_output_bits
        base == base_generator_matrix(st, m)
    IN  IF st.kind = "DirectTruncation"
        THEN [r \in 1 .. Len(base) |-> [j \in 1 .. Len(base[r]) |->
                IF j <= n0 * ((r - 1) \div k0) THEN 0 ELSE base[r][j]]]
        ELSE base

\* a strategy is constructed on a convolutional code with a block count
InitTerm ==
    /\ strategy \in [kind : StrategyKinds, convolutional_code : ConvolutionalCodes,
                     num_blocks : 1 .. MaxBlocks]
    /\ fsm = finite_state_machine(strategy.convolutional_code)
    /\ call = NoCall
    /\ decoder = NoDecoder
    /\ memory = NoMemory
    /\ stream = NoStream
    /\ source = NoSource

\* the block code encodes a message by direct simulation
EncMapping ==
    /\ call = NoCall
    /\ \E u \in [1 .. dimension(strategy) -> {0, 1}] :
        \E s_i \in {initial_state(strategy, fsm, u)} :
        \E ret \in {process(fsm, pre_process_input(strategy, u), s_i)} :
            call' = [op |-> "enc_mapping", input_bits |-> u, initial_state |-> s_i,
                     final_state |-> ret.final_state,
                     codeword |-> unpack(ret.output_sequence,
                                         strategy.convolutional_code.num_output_bits)]
    /\ UNCHANGED <<fsm, decoder, memory, stream, source, strategy>>

\* the strategy derives the generator matrix of the block code
GeneratorMatrix ==
    /\ call = NoCall
    /\ call' = [op |-> "generator_matrix",
                generator_matrix |-> generator_matrix(strategy, fsm)]
    /\ UNCHANGED <<fsm, decoder, memory, stream, source, strategy>>

\* the strategy reports the length of the block code
CodewordLength ==
    /\ call = NoCall
    /\ call' = [op |-> "codeword_length", codeword_length |-> codeword_length(strategy)]
    /\ UNCHANGED <<fsm, decoder, memory, stream, source, strategy>>

NextTerm == EncMapping \/ GeneratorMatrix \/ CodewordLength

SpecTerm == InitTerm /\ [][NextTerm]_vars

Encoded(kind) == strategy.kind = kind /\ call.op = "enc_mapping"

\* u times the generator matrix modulo 2 is the codeword of the direct simulation
RoundTrip ==
    \A G \in {generator_matrix(strategy, fsm)} :
        VecMod2(VecMat(call.input_bits, G)) = call.codeword

Feedforward(code) == \A j \in 1 .. Len(code.A) : code.A[j][1] = 0

(***************************************************************************)
(* C9: zero-termination round trip. For every convolutional encoder        *)
(* (feedforward or with feedback), every block count h and every message u *)
(* of h*k0 bits, u times ZeroTermination.generator_matrix(code) modulo 2   *)
(* equals the bits obtained by running the encoder's machine from state 0  *)
(* on ZeroTermination.pre_process_input(u).                                *)
(***************************************************************************)
C9_ZeroTerminationRoundTrip == Encoded("ZeroTermination") => RoundTrip

\* C9 for the encoders without feedback
C9_FeedforwardRoundTrip ==
    Encoded("ZeroTermination") /\ Feedforward(strategy.convolutional_code) => RoundTrip

\* the zero-terminated run ends in state 0
ZeroTerminationReturnsToZero == Encoded("ZeroTermination") => call.final_state = 0

(***************************************************************************)
(* C10: tail-biting round trip. For every convolutional encoder, every     *)
(* block count h for which A^h + I is invertible over GF(2) and every      *)
(* message u of h*k0 bits, u times TailBiting.generator_matrix(code)       *)
(* modulo 2 equals the bits obtained by running the encoder's machine on   *)
(* the h input blocks of u from the state TailBiting.initial_state gives   *)
(* for u.                                                                  *)
(***************************************************************************)
C10_TailBitingRoundTrip ==
    Encoded("TailBiting") /\ Invertible(zs_matrix(strategy)) => RoundTrip

\* C10 for the encoders with one input bit per block
C10_OneInputRoundTrip ==
    /\ Encoded("TailBiting")
    /\ Invertible(zs_matrix(strategy))
    /\ strategy.convolutional_code.num_input_bits = 1
    => RoundTrip

\* the tail-biting run ends in the state it starts in
TailBitingCloses ==
    /\ Encoded("TailBiting")
    /\ Invertible(zs_matrix(strategy))
    /\ strategy.convolutional_code.num_input_bits = 1
    => call.final_state = call.initial_state

(***************************************************************************)
(* C11: direct-truncation round trip. For every convolutional encoder,     *)
(* every block count h and every message u of h*k0 bits, u times           *)
(* DirectTruncation.generator_matrix(code) modulo 2 equals the h*n0 bits   *)
(* obtained by running the encoder's machine from state 0 on the h input   *)
(* blocks of u and stopping.                                               *)
(***************************************************************************)
C11_DirectTruncationRoundTrip ==
    Encoded("DirectTruncation") =>
        /\ call.initial_state = 0
        /\ Len(call.codeword) = strategy.num_blocks * strategy.convolutional_code.num_output_bits
        /\ RoundTrip

\* an encoder with feedback, stopped with its register not cleared, after a message
\* whose later blocks are not zero
C11_Witness ==
    /\ Encoded("DirectTruncation")
    /\ ~Feedforward(strategy.convolutional_code)
    /\ strategy.num_blocks = MaxBlocks
    /\ call.final_state # 0
    /\ call.input_bits[Len(call.input_bits)] = 1
    /\ call.input_bits[1] = 1
    /\ RoundTrip

(***************************************************************************)
(* C12: zero termination returns the encoder to the zero state. For every  *)
(* convolutional encoder, every block count h and every message u of h*k0  *)
(* bits, ZeroTermination.pre_process_input(u) is the h input blocks of u   *)
(* followed by exactly mu tail blocks, the tail bits are u * T (mod 2),    *)
(* and running the machine on that sequence from state 0 ends in state 0.  *)
(***************************************************************************)
C12_ZeroTerminationClearsState ==
    Encoded("ZeroTermination") =>
        \A seq \in {pre_process_input(strategy, call.input_bits)} :
            LET h  == strategy.num_blocks
                mu == strategy.convolutional_code.memory_order
                k0 == strategy.convolutional_code.num_input_bits
            IN  /\ Len(seq) = h + mu
                /\ SubSeq(seq, 1, h) = pack(call.input_bits, k0)
                /\ unpack(SubSeq(seq, h + 1, h + mu), k0)
                     = VecMod2(VecMat(call.input_bits, tail_projector(strategy)))
                /\ call.initial_state = 0
                /\ process(fsm, seq, 0).final_state = call.final_state
                /\ call.final_state = 0

\* an encoder with feedback whose register is cleared by a tail that is not zero
C12_Witness ==
    /\ Encoded("ZeroTermination")
    /\ ~Feedforward(strategy.convolutional_code)
    /\ strategy.num_blocks = MaxBlocks
    /\ process(fsm, pack(call.input_bits, strategy.convolutional_code.num_input_bits), 0).final_state # 0
    /\ \E c \in 1 .. strategy.convolutional_code.memory_order
                     * strategy.convolutional_code.num_input_bits :
        VecMod2(VecMat(call.input_bits, tail_projector(strategy)))[c] = 1
    /\ call.final_state = 0

(***************************************************************************)
(* C13: tail-biting closes the trellis. For every convolutional encoder    *)
(* (k0 = 1 and k0 > 1 alike), every block count h for which A^h + I is     *)
(* invertible over GF(2) and every message u of h*k0 bits, running the     *)
(* machine on TailBiting.pre_process_input(u) from s =                     *)
(* TailBiting.initial_state(u) ends in s, and s is the only such state.    *)
(***************************************************************************)
ClosesFrom(s) ==
    process(fsm, pre_process_input(strategy, call.input_bits), s).final_state = s

C13_TailBitingClosesTrellis ==
    Encoded("TailBiting") /\ Invertible(zs_matrix(strategy)) =>
        /\ call.initial_state = initial_state(strategy, fsm, call.input_bits)
        /\ call.final_state = call.initial_state
        /\ \A s \in States(fsm) : ClosesFrom(s) => s = call.initial_state

\* C13 for the encoders with one input bit per block
C13_OneInputClosesTrellis ==
    /\ Encoded("TailBiting")
    /\ Invertible(zs_matrix(strategy))
    /\ strategy.convolutional_code.num_input_bits = 1
    => /\ call.final_state = call.initial_state
       /\ \A s \in States(fsm) : ClosesFrom(s) => s = call.initial_state

(***************************************************************************)
(* forward_backward. The code works on logarithms; the quantities here are *)
(* their exponentials, as exact non-negative integers in a common unit: a  *)
(* logaddexp reduction is a sum, a sum of logarithms is a product, -inf is *)
(* 0, and a posterior is the fraction weights[x] / total.                  *)
(***************************************************************************)
\* longest observed sequence given to forward_backward
MaxSteps == 3

\* the sum of the values of a function with a finite domain
RECURSIVE SumFn(_)
SumFn(f) ==
    IF DOMAIN f = {} THEN 0
    ELSE LET d == CHOOSE e \in DOMAIN f : TRUE
         IN  f[d] + SumFn([e \in DOMAIN f \ {d} |-> f[e]])

\* np.amax of a row of non-negative values
AMax(f) == CHOOSE v \in {f[d] : d \in DOMAIN f} : \A d \in DOMAIN f : f[d] <= v

\* the metric functions given to forward_backward, as likelihoods exp(metric(y, z)):
\* a symmetric noisy channel and a noiseless one (metric -inf off the sent symbol)
Likelihoods == {"noisy", "noiseless"}

exp_metric(lf, y, z) ==
    CASE lf = "noisy"     -> IF y = z THEN 2 ELSE 1
      [] lf = "noiseless" -> IF y = z THEN 1 ELSE 0

\* np.ndindex(num_input_symbols, num_states): x outermost
NdIndex(m) ==
    [i \in 1 .. (num_input_symbols(m.next_states) * num_states(m.next_states)) |->
        <<(i - 1) \div num_states(m.next_states), (i - 1) % num_states(m.next_states)>>]

\* a fill that leaves the input prior out of log_gamma
RECURSIVE GammaFillNoPrior(_, _, _, _, _, _)
GammaFillNoPrior(m, lf, z, priors_t, pairs, gamma_t) ==
    IF pairs = <<>> THEN gamma_t
    ELSE LET x  == Head(pairs)[1]
             s0 == Head(pairs)[2]
             y  == m.outputs[s0][x]
             s1 == m.next_states[s0][x]
         IN  GammaFillNoPrior(m, lf, z, priors_t, Tail(pairs),
                              [gamma_t EXCEPT ![s0][s1] = exp_metric(lf, y, z)])

\* the fill of log_gamma[t]: for x, s0 in ndindex: log_gamma[t, s0, s1] = ...
RECURSIVE GammaFill(_, _, _, _, _, _)
GammaFill(m, lf, z, priors_t, pairs, gamma_t) ==
    IF pairs = <<>> THEN gamma_t
    ELSE LET x  == Head(pairs)[1]
             s0 == Head(pairs)[2]
             y  == m.outputs[s0][x]
             s1 == m.next_states[s0][x]
         IN  GammaFill(m, lf, z, priors_t, Tail(pairs),
                       [gamma_t EXCEPT ![s0][s1] = priors_t[x] * exp_metric(lf, y, z)])

\* log_gamma: np.full(-inf), then filled for every t
Gamma(m, lf, observed_sequence, input_priors) ==
    [t \in 1 .. Len(observed_sequence) |->
        GammaFill(m, lf, observed_sequence[t], input_priors[t], NdIndex(m),
                  [s0 \in States(m) |-> [s1 \in States(m) |-> 0]])]

\* log_alpha: rows[t + 1] is log_alpha[t]. for t in range(0, L - 1) fills rows 1 ..
\* L - 1; row L is left at -inf
RECURSIVE AlphaFill(_, _, _, _)
AlphaFill(m, gamma, L, rows) ==
    IF Len(rows) >= L THEN Append(rows, [s \in States(m) |-> 0])
    ELSE \* t = Len(rows) - 1
         CHOOSE out \in {AlphaFill(m, gamma, L, Append(rows, row)) :
            row \in {[s1 \in States(m) |->
                SumFn([s0 \in States(m) |-> gamma[Len(rows)][s0][s1] * rows[Len(rows)][s0]])]}} :
            TRUE

\* log_beta: rows is log_beta[t .. L], filled for t = L - 1 down to 0
RECURSIVE BetaFill(_, _, _, _)
BetaFill(m, gamma, t, rows) ==
    IF t < 0 THEN rows
    ELSE CHOOSE out \in {BetaFill(m, gamma, t - 1, <<row>> \o rows) :
            row \in {[s0 \in States(m) |->
                SumFn([s1 \in States(m) |-> gamma[t + 1][s0][s1] * rows[1][s1]])]}} :
            TRUE

\* a normalisation that stops after the division by the maximum
NormaliseByMax(row) ==
    IF AMax(row) = 0 THEN [nan |-> TRUE]
    ELSE [nan |-> FALSE, weights |-> row, total |-> AMax(row)]

\* the last two statements: exp(row - amax(row)), then row /= sum(row). A row that
\* is all -inf gives -inf - (-inf) = nan
Normalise(row) ==
    IF AMax(row) = 0 THEN [nan |-> TRUE]
    ELSE [nan |-> FALSE, weights |-> row, total |-> SumFn(row)]

Uniform(A) == [a \in A |-> 1]

\* the posteriors from the three tables: edge_labels reduced per (t, x), normalised
Posteriors(m, L, log_gamma, initial, final) ==
    CHOOSE input_posteriors \in
        {[t \in 1 .. L |->
            Normalise([x \in Inputs(m) |->
                SumFn([s0 \in States(m) |->
                    log_alpha[t][s0] * log_gamma[t][s0][m.next_states[s0][x]]
                        * log_beta[t + 1][m.next_states[s0][x]]])])] :
         log_alpha \in {AlphaFill(m, log_gamma, L, <<initial>>)},
         log_beta  \in {BetaFill(m, log_gamma, L - 1, <<final>>)}} : TRUE

\* an optional argument left out
None == <<>>

\* a distribution that puts everything on one state
PointMass(m, state) == [st \in States(m) |-> IF st = state THEN 1 ELSE 0]

\* the defaults of the optional arguments: uniform
PriorsOrDefault(m, L, input_priors) ==
    IF input_priors = None THEN [t \in 1 .. L |-> Uniform(Inputs(m))] ELSE input_priors

DistributionOrDefault(m, distribution) ==
    IF distribution = None THEN Uniform(States(m)) ELSE distribution

\* forward_backward(observed_sequence, metric_function, input_priors,
\*                  initial_state_distribution, final_state_distribution)
forward_backward(m, observed_sequence, lf, input_priors, initial, final) ==
    CHOOSE input_posteriors \in
        {Posteriors(m, Len(observed_sequence), log_gamma,
                    DistributionOrDefault(m, initial), DistributionOrDefault(m, final)) :
         log_gamma \in {Gamma(m, lf, observed_sequence,
                              PriorsOrDefault(m, Len(observed_sequence), input_priors))}} : TRUE

\* the machines given to forward_backward: two states and two inputs with either of
\* two output tables, and the docstring machine
PosteriorMachines ==
    {m \in SmallMachines :
        \/ \A st \in States(m) : \A x \in Inputs(m) : m.outputs[st][x] = x
        \/ \A st \in States(m) : \A x \in Inputs(m) : m.outputs[st][x] = (st + x) % 2}
    \cup {DocMachine}

\* rows of an input_priors table, in a common unit
PriorRows(m) == {[x \in Inputs(m) |-> x + 1], [x \in Inputs(m) |-> IF x = 0 THEN 0 ELSE 1]}

\* the distributions given for the initial and the final state
Distributions(m) ==
    {None, PointMass(m, 1), [st \in States(m) |-> IF st = 0 THEN 2 ELSE 1]}

\* a constructed machine and the arguments of a call of forward_backward
InitPosterior ==
    /\ fsm \in PosteriorMachines
    /\ decoder = NoDecoder
    /\ memory = NoMemory
    /\ stream = NoStream
    /\ source = NoSource
    /\ strategy = NoStrategy
    /\ \E L \in 1 .. (IF fsm = DocMachine THEN MaxSteps - 1 ELSE MaxSteps) :
       \E observed_sequence \in [1 .. L -> Range(2)] :
       \E lf \in Likelihoods :
       \E input_priors \in {None} \cup [1 .. L -> PriorRows(fsm)] :
       \E initial \in Distributions(fsm) :
       \E final \in Distributions(fsm) :
            call = [op |-> "forward_backward", returned |-> FALSE,
                    observed_sequence |-> observed_sequence,
                    metric_function |-> lf,
                    input_priors |-> input_priors,
                    initial_state_distribution |-> initial,
                    final_state_distribution |-> final]

\* the call fsm.forward_backward(...)
ForwardBackward ==
    /\ call.op = "forward_backward"
    /\ ~call.returned
    /\ call' = [call EXCEPT !.returned = TRUE] @@
               [ret |-> forward_backward(fsm, call.observed_sequence, call.metric_function,
                                         call.input_priors, call.initial_state_distribution,
                                         call.final_state_distribution)]
    /\ UNCHANGED <<fsm, decoder, memory, stream, source, strategy>>

NextPosterior == ForwardBackward

SpecPosterior == InitPosterior /\ [][NextPosterior]_vars

PosteriorReturned == call.op = "forward_backward" /\ call.returned

\* the weight of the run r = <<s_0, x>>: initial(s_0) * prod prior(t, x_t) *
\* exp(metric(y_t, z_t)) * final(s_L)
RECURSIVE PathWeight(_, _, _, _, _, _)
PathWeight(m, lf, z, priors, r, t) ==
    IF t = 0 THEN 1
    ELSE PathWeight(m, lf, z, priors, r, t - 1)
            * priors[t][r[2][t]]
            * exp_metric(lf, m.outputs[RunState(m, r[1], r[2], t - 1)][r[2][t]], z[t])

RunWeight(m, r) ==
    LET L == Len(call.observed_sequence)
    IN  DistributionOrDefault(m, call.initial_state_distribution)[r[1]]
        * PathWeight(m, call.metric_function, call.observed_sequence,
                     PriorsOrDefault(m, L, call.input_priors), r, L)
        * DistributionOrDefault(m, call.final_state_distribution)[RunState(m, r[1], r[2], L)]

\* the sum of the weights of the runs with x_t = x
RunsWeight(m, t, x) ==
    SumFn([r \in {q \in Runs(m, Len(call.observed_sequence)) : q[2][t] = x} |-> RunWeight(m, r)])

TotalWeight(m) ==
    SumFn([r \in Runs(m, Len(call.observed_sequence)) |-> RunWeight(m, r)])

(***************************************************************************)
(* C14: forward-backward computes the exact posterior. For every machine   *)
(* with at most one edge per ordered pair of states, every observed        *)
(* sequence of length L >= 1, input priors, initial and final state        *)
(* distributions and metric read as a log-likelihood, the returned entry   *)
(* [t, x] is the sum over all runs with x_t = x of initial(s_0) * prod     *)
(* prior * exp(metric) * final(s_L), divided by the same sum over all runs.*)
(***************************************************************************)
C14_ExactPosterior ==
    PosteriorReturned /\ UniqueEdges(fsm) =>
        \A total \in {TotalWeight(fsm)} :
            total > 0 =>
                \A t \in 1 .. Len(call.observed_sequence) :
                    /\ ~call.ret[t].nan
                    /\ \A x \in Inputs(fsm) :
                        call.ret[t].weights[x] * total
                            = RunsWeight(fsm, t, x) * call.ret[t].total

\* an interior step of a sequence of full length, with priors, a pinned final state
\* and posteriors that are not uniform
C14_Witness ==
    /\ PosteriorReturned
    /\ UniqueEdges(fsm)
    /\ Len(call.observed_sequence) = MaxSteps
    /\ call.input_priors # None
    /\ call.final_state_distribution = PointMass(fsm, 1)
    /\ TotalWeight(fsm) > 0
    /\ ~call.ret[2].nan
    /\ call.ret[2].weights[0] # call.ret[2].weights[1]
    /\ call.ret[2].weights[0] > 0
    /\ call.ret[2].weights[1] > 0

\* C14 without the condition on the edges
ExactPosteriorAnyMachine ==
    PosteriorReturned =>
        \A total \in {TotalWeight(fsm)} :
            total > 0 =>
                \A t \in 1 .. Len(call.observed_sequence) :
                    /\ ~call.ret[t].nan
                    /\ \A x \in Inputs(fsm) :
                        call.ret[t].weights[x] * total
                            = RunsWeight(fsm, t, x) * call.ret[t].total

\* the row of posteriors sums to 1
SumsToOne(row) ==
    /\ ~row.nan
    /\ row.total > 0
    /\ SumFn(row.weights) = row.total

StrictlyPositive(f) == \A d \in DOMAIN f : f[d] > 0

\* priors, state distributions and likelihoods without a zero
PositiveCall ==
    /\ call.metric_function = "noisy"
    /\ \/ call.input_priors = None
       \/ \A t \in 1 .. Len(call.input_priors) : StrictlyPositive(call.input_priors[t])
    /\ \/ call.initial_state_distribution = None
       \/ StrictlyPositive(call.initial_state_distribution)
    /\ \/ call.final_state_distribution = None
       \/ StrictlyPositive(call.final_state_distribution)

(***************************************************************************)
(* C15: forward-backward posteriors are probability vectors. For every     *)
(* time step t, the returned row of posteriors over the input symbols sums *)
(* to 1 and is strictly positive for every input symbol carried by at      *)
(* least one edge (every input symbol is: the tables are total).           *)
(***************************************************************************)
C15_ProbabilityVectorsAlways ==
    PosteriorReturned =>
        \A t \in 1 .. Len(call.observed_sequence) :
            /\ SumsToOne(call.ret[t])
            /\ StrictlyPositive(call.ret[t].weights)

\* C15 amended: when the priors, both state distributions and the likelihoods are
\* strictly positive, every row sums to 1 and is strictly positive; in general a row
\* sums to 1 whenever some run has positive weight, and is nan otherwise
C15_ProbabilityVectors ==
    PosteriorReturned =>
        \A t \in 1 .. Len(call.observed_sequence) :
            /\ PositiveCall => SumsToOne(call.ret[t]) /\ StrictlyPositive(call.ret[t].weights)
            /\ UniqueEdges(fsm) =>
                  IF TotalWeight(fsm) > 0 THEN SumsToOne(call.ret[t]) ELSE call.ret[t].nan

C15_Witness ==
    /\ PosteriorReturned
    /\ PositiveCall
    /\ call.input_priors # None
    /\ call.initial_state_distribution # None
    /\ Len(call.observed_sequence) = MaxSteps
    /\ \A t \in 1 .. Len(call.observed_sequence) :
        /\ SumsToOne(call.ret[t])
        /\ StrictlyPositive(call.ret[t].weights)
        /\ call.ret[t].weights[0] # call.ret[t].weights[1]

(***************************************************************************)
(* C16: edge lookup tables. For every constructed machine and every        *)
(* ordered pair of states (s0, s1), input_edges[s0, s1] is the input x     *)
(* with next_states[s0, x] = s1 (when several inputs drive s0 to s1, the   *)
(* largest) and output_edges[s0, s1] = outputs[s0, x] for that x; both     *)
(* entries are -1 exactly when no input drives s0 to s1.                   *)
(***************************************************************************)
Driving(m, s0, s1) == {x \in Inputs(m) : m.next_states[s0][x] = s1}

C16_EdgeTables ==
    /\ DOMAIN fsm.input_edges = States(fsm)
    /\ DOMAIN fsm.output_edges = States(fsm)
    /\ \A s0, s1 \in States(fsm) :
        /\ DOMAIN fsm.input_edges[s0] = States(fsm)
        /\ DOMAIN fsm.output_edges[s0] = States(fsm)
        /\ IF Driving(fsm, s0, s1) = {}
           THEN fsm.input_edges[s0][s1] = -1 /\ fsm.output_edges[s0][s1] = -1
           ELSE /\ fsm.input_edges[s0][s1] \in Driving(fsm, s0, s1)
                /\ \A x \in Driving(fsm, s0, s1) : x <= fsm.input_edges[s0][s1]
                /\ fsm.output_edges[s0][s1] = fsm.outputs[s0][fsm.input_edges[s0][s1]]
    /\ fsm = DocMachine =>
        /\ fsm.input_edges = [s0 \in Range(4) |-> [s1 \in Range(4) |->
              (<<0, 1, -1, -1, -1, -1, 0, 1, 0, 1, -1, -1, -1, -1, 0, 1>>)[4 * s0 + s1 + 1]]]
        /\ fsm.output_edges = [s0 \in Range(4) |-> [s1 \in Range(4) |->
              (<<0, 3, -1, -1, -1, -1, 1, 2, 3, 0, -1, -1, -1, -1, 2, 1>>)[4 * s0 + s1 + 1]]]

\* a machine in which both inputs drive state 0 to state 1 with different outputs,
\* and no input drives state 0 to itself
C16_Witness ==
    /\ Driving(fsm, 0, 1) = {0, 1}
    /\ fsm.outputs[0][0] # fsm.outputs[0][1]
    /\ fsm.input_edges[0][1] = 1
    /\ fsm.output_edges[0][1] = fsm.outputs[0][1]
    /\ fsm.input_edges[0][0] = -1
    /\ call.op = "process" /\ call.returned

(***************************************************************************)
(* C17: alphabets are dense ranges of the declared sizes. For every        *)
(* constructed machine, num_states, num_input_symbols and                  *)
(* num_output_symbols are positive, num_output_symbols is the cardinality  *)
(* Y of the output alphabet, and every entry of the output table, hence    *)
(* every symbol emitted by process, lies in [0, num_output_symbols), just  *)
(* as every next state lies in [0, num_states).                            *)
(***************************************************************************)
C17_DenseAlphabets ==
    /\ num_states(fsm.next_states) > 0
    /\ num_input_symbols(fsm.next_states) > 0
    /\ num_output_symbols(fsm.outputs) > 0
    /\ \A st \in States(fsm) : \A x \in Inputs(fsm) :
        /\ fsm.next_states[st][x] \in Range(num_states(fsm.next_states))
        /\ fsm.outputs[st][x] \in Range(num_output_symbols(fsm.outputs))
    /\ (call.op = "process" /\ call.returned =>
            \A t \in 1 .. Len(call.ret.output_sequence) :
                call.ret.output_sequence[t] \in Range(num_output_symbols(fsm.outputs)))

\* the part of C17 about the states and the input symbols
StatesAndInputsDense ==
    /\ num_states(fsm.next_states) > 0
    /\ num_input_symbols(fsm.next_states) > 0
    /\ States(fsm) = Range(num_states(fsm.next_states))
    /\ Inputs(fsm) = Range(num_input_symbols(fsm.next_states))
    /\ \A st \in States(fsm) : \A x \in Inputs(fsm) :
        fsm.next_states[st][x] \in Range(num_states(fsm.next_states))

\* the value num_output_symbols has: the largest output, one less than the
\* cardinality of the least range [0, Y) that holds the outputs
OutputCountIsLargestOutput ==
    /\ \E st \in States(fsm) : \E x \in Inputs(fsm) :
        fsm.outputs[st][x] = num_output_symbols(fsm.outputs)
    /\ \A st \in States(fsm) : \A x \in Inputs(fsm) :
        fsm.outputs[st][x] \in Range(num_output_symbols(fsm.outputs) + 1)

(***************************************************************************)
(* FiniteStateMachine.process on symbols outside the input alphabet. The   *)
(* loop indexes the tables with the symbol as numpy does: an index in      *)
(* [-X, X) is accepted and a negative one counts from the end of the row,  *)
(* an index outside [-X, X) raises IndexError. There is no other check.    *)
(***************************************************************************)
RECURSIVE ProcessLoopIndexed(_, _, _, _)
ProcessLoopIndexed(m, input_sequence, s, output_sequence) ==
    IF input_sequence = <<>>
    THEN [raised |-> FALSE, output_sequence |-> output_sequence, final_state |-> s]
    ELSE LET X == num_input_symbols(m.next_states)
             x == Head(input_sequence)
         IN  IF ~IndexOk(x, X) THEN [raised |-> TRUE]
             ELSE ProcessLoopIndexed(m, Tail(input_sequence),
                                     m.next_states[s][PyIndex(x, X)],
                                     Append(output_sequence, m.outputs[s][PyIndex(x, X)]))

\* the symbols handed to process: the alphabet and what lies around it
AnySymbols(m) == (0 - num_input_symbols(m.next_states) - 1) .. num_input_symbols(m.next_states)

InitAnySymbol ==
    /\ Constructed
    /\ fsm \in PosteriorMachines
    /\ \E s_i \in States(fsm) :
       \E input_sequence \in SeqsUpTo(AnySymbols(fsm), MaxLen) :
            call = [op |-> "process", returned |-> FALSE, raised |-> FALSE,
                    input_sequence |-> input_sequence,
                    initial_state |-> s_i]

\* the call fsm.process(input_sequence, initial_state), returning or raising
ProcessAnySymbol ==
    /\ call.op = "process"
    /\ ~call.returned
    /\ ~call.raised
    /\ \E r \in {ProcessLoopIndexed(fsm, call.input_sequence, call.initial_state, <<>>)} :
        call' = IF r.raised
                THEN [call EXCEPT !.raised = TRUE]
                ELSE [call EXCEPT !.returned = TRUE] @@
                     [ret |-> [output_sequence |-> r.output_sequence,
                               final_state |-> r.final_state]]
    /\ UNCHANGED <<fsm, decoder, memory, stream, source, strategy>>

NextAnySymbol == ProcessAnySymbol

SpecAnySymbol == InitAnySymbol /\ [][NextAnySymbol]_vars

HasSymbolOutside(m, input_sequence) ==
    \E t \in 1 .. Len(input_sequence) : input_sequence[t] \notin Inputs(m)

(***************************************************************************)
(* C18: process rejects out-of-alphabet input. For every machine and       *)
(* initial state, if any symbol of the input sequence lies outside [0, X), *)
(* symbols >= X and negative symbols alike, the call fails and returns     *)
(* neither an output sequence nor a final state.                           *)
(***************************************************************************)
C18_RejectsOutOfAlphabet ==
    (call.op = "process" /\ HasSymbolOutside(fsm, call.input_sequence)) =>
        /\ ~call.returned
        /\ "ret" \notin DOMAIN call

\* what the loop does reject: a symbol outside [-X, X)
RejectsOutsideIndexRange ==
    (call.op = "process"
        /\ \E t \in 1 .. Len(call.input_sequence) :
            ~IndexOk(call.input_sequence[t], num_input_symbols(fsm.next_states))) =>
        /\ ~call.returned
        /\ "ret" \notin DOMAIN call

\* what it accepts: a sequence with symbols in [-X, X), negative ones taken
\* as the symbol X places higher
NegativeSymbolsWrap ==
    (call.op = "process" /\ (call.returned \/ call.raised)
        /\ \A t \in 1 .. Len(call.input_sequence) :
            IndexOk(call.input_sequence[t], num_input_symbols(fsm.next_states))) =>
        /\ call.returned
        /\ call.ret = process(fsm,
                [t \in 1 .. Len(call.input_sequence) |->
                    PyIndex(call.input_sequence[t], num_input_symbols(fsm.next_states))],
                call.initial_state)

\* the docstring machine returns ([3], 1) on the input [-1] from state 0
NegativeSymbolAccepted ==
    /\ fsm = DocMachine
    /\ call.op = "process"
    /\ call.input_sequence = <<-1>>
    /\ call.initial_state = 0
    /\ call.returned
    /\ call.ret = [output_sequence |-> <<3>>, final_state |-> 1]

(***************************************************************************)
(* Construction of a FiniteStateMachine from arbitrary tables. A table is  *)
(* a function from row numbers to rows, a row a function from column       *)
(* numbers to entries. The converter np.asarray refuses a table whose rows *)
(* differ in length; __attrs_post_init__ then indexes the arrays as numpy  *)
(* does and checks nothing else.                                           *)
(***************************************************************************)
NoMachine == [constructed |-> FALSE]

Rectangular(table) == \A s \in DOMAIN table : DOMAIN table[s] = DOMAIN table[0]

\* the inner loop of __attrs_post_init__ on row state_from, x onwards: the
\* two writes at [state_from, state_to] and the read outputs[state_from, x]
RECURSIVE EdgeRowIndexed(_, _, _, _, _)
EdgeRowIndexed(next_states, outputs, state_from, x, rows) ==
    LET S == num_states(next_states)
        state_to == next_states[state_from][x]
    IN  IF x >= num_input_symbols(next_states) THEN rows
        ELSE IF \/ ~IndexOk(state_to, S)
                \/ ~IndexOk(state_from, num_states(outputs))
                \/ ~IndexOk(x, num_input_symbols(outputs))
        THEN [raised |-> TRUE]
        ELSE EdgeRowIndexed(next_states, outputs, state_from, x + 1,
                [raised |-> FALSE,
                 input  |-> [rows.input EXCEPT ![PyIndex(state_to, S)] = x],
                 output |-> [rows.output EXCEPT ![PyIndex(state_to, S)] =
                                outputs[state_from][x]]])

\* the converters and __attrs_post_init__: the machine, or raised
PostInit(next_states, outputs) ==
    IF ~Rectangular(next_states) \/ ~Rectangular(outputs) THEN [raised |-> TRUE]
    ELSE LET S == num_states(next_states)
             blank == [s1 \in Range(S) |-> -1]
             rows == [state_from \in Range(S) |->
                        EdgeRowIndexed(next_states, outputs, state_from, 0,
                            [raised |-> FALSE, input |-> blank, output |-> blank])]
         IN  IF \E state_from \in Range(S) : rows[state_from].raised
             THEN [raised |-> TRUE]
             ELSE [raised |-> FALSE,
                   machine |-> [next_states  |-> next_states,
                                outputs      |-> outputs,
                                input_edges  |-> [s0 \in Range(S) |-> rows[s0].input],
                                output_edges |-> [s0 \in Range(S) |-> rows[s0].output]]]

Rows(table) == Cardinality(DOMAIN table)

Columns(table) == Cardinality(DOMAIN table[0])

\* the table with the last entry of its last row left out
WithShortRow(table) ==
    [s \in DOMAIN table |->
        IF s = Rows(table) - 1
        THEN [x \in Range(Columns(table) - 1) |-> table[s][x]]
        ELSE table[s]]

\* the table resized to the given shape, new entries 0
Resized(table, rows, columns) ==
    [s \in Range(rows) |-> [x \in Range(columns) |->
        IF s \in DOMAIN table /\ x \in DOMAIN table[0] THEN table[s][x] ELSE 0]]

\* the table with entry v at [s, x]
WithEntry(table, s, x, v) == [table EXCEPT ![s][x] = v]

\* the pairs of tables handed to the constructor: the tables of a machine,
\* as they are or with one defect
TablePairs ==
    UNION {LET ns == m.next_states
               os == m.outputs
               S == Rows(ns)
               X == Columns(ns)
           IN  {<<ns, os>>, <<WithShortRow(ns), os>>, <<ns, WithShortRow(os)>>}
               \cup {<<ns, Resized(os, r, c)>> : r \in {S - 1, S, S + 1},
                                                  c \in {X - 1, X, X + 1}}
               \cup {<<WithEntry(ns, s, x, v), os>> :
                        s \in Range(S), x \in Range(X), v \in {0 - S - 1, 0 - S, -1, S}}
               \cup {<<ns, WithEntry(os, s, x, -1)>> : s \in Range(S), x \in Range(X)}
           : m \in Machines}

InitConstruct ==
    /\ fsm = NoMachine
    /\ decoder = NoDecoder
    /\ memory = NoMemory
    /\ source = NoSource
    /\ strategy = NoStrategy
    /\ stream = NoStream
    /\ \E tables \in TablePairs :
        call = [op |-> "construct", returned |-> FALSE, raised |-> FALSE,
                next_states |-> tables[1], outputs |-> tables[2]]

\* the call komm.FiniteStateMachine(next_states, outputs)
Construct ==
    /\ call.op = "construct"
    /\ ~call.returned
    /\ ~call.raised
    /\ \E r \in {PostInit(call.next_states, call.outputs)} :
        IF r.raised
        THEN /\ call' = [call EXCEPT !.raised = TRUE]
             /\ fsm' = fsm
        ELSE /\ call' = [call EXCEPT !.returned = TRUE]
             /\ fsm' = r.machine
    /\ UNCHANGED <<decoder, memory, stream, source, strategy>>

NextConstruct == Construct

SpecConstruct == InitConstruct /\ [][NextConstruct]_vars

SameShape(a, b) == Rows(a) = Rows(b) /\ Columns(a) = Columns(b)

Malformed(next_states, outputs) ==
    \/ ~Rectangular(next_states)
    \/ ~Rectangular(outputs)
    \/ ~SameShape(next_states, outputs)
    \/ \E s \in DOMAIN next_states : \E x \in DOMAIN next_states[s] :
        next_states[s][x] \notin Range(Rows(next_states))
    \/ \E s \in DOMAIN outputs : \E x \in DOMAIN outputs[s] : outputs[s][x] < 0

(***************************************************************************)
(* C19: construction fails fast on malformed tables. Building a machine    *)
(* from next_states and outputs of different shapes, from a                *)
(* non-rectangular table, or from a table with an out-of-range entry (a    *)
(* next state outside [0, S), negative included, or a negative output)     *)
(* fails during construction, so no machine exists on which process or a   *)
(* decoder could be called.                                                *)
(***************************************************************************)
C19_MalformedTablesRejected ==
    (call.op = "construct" /\ Malformed(call.next_states, call.outputs)) =>
        /\ ~call.returned
        /\ fsm = NoMachine

\* what construction does reject: rows of different lengths, an outputs
\* table with fewer rows or columns than next_states, a next state outside
\* [-S, S)
RejectedTables(next_states, outputs) ==
    \/ ~Rectangular(next_states)
    \/ ~Rectangular(outputs)
    \/ Rows(outputs) < Rows(next_states)
    \/ Columns(outputs) < Columns(next_states)
    \/ \E s \in DOMAIN next_states : \E x \in DOMAIN next_states[s] :
        ~IndexOk(next_states[s][x], Rows(next_states))

ConstructionRejectsExactly ==
    (call.op = "construct" /\ (call.returned \/ call.raised)) =>
        /\ call.raised <=> RejectedTables(call.next_states, call.outputs)
        /\ call.raised <=> fsm = NoMachine

\* a machine built with a next state of -1 and a negative output
NegativeEntriesAccepted ==
    /\ call.op = "construct"
    /\ call.returned
    /\ fsm # NoMachine
    /\ fsm.next_states[0][0] = -1
    /\ \E s \in DOMAIN fsm.input_edges : fsm.input_edges[0][s] = 0

\* a machine built from an outputs table wider than next_states
WiderOutputsAccepted ==
    /\ call.op = "construct"
    /\ call.returned
    /\ fsm # NoMachine
    /\ Columns(fsm.outputs) > Columns(fsm.next_states)

\* a machine built with a negative output
NegativeOutputAccepted ==
    /\ call.op = "construct"
    /\ call.returned
    /\ fsm # NoMachine
    /\ \E s \in DOMAIN fsm.outputs : \E x \in DOMAIN fsm.outputs[s] : fsm.outputs[s][x] < 0

(***************************************************************************)
(* ConvolutionalStreamDecoder with an arbitrary input_type. The field has  *)
(* no validator and __attrs_post_init__ does not look at it;               *)
(* metric_function raises ValueError for a type other than "hard" and      *)
(* "soft". viterbi_streaming first calls it on the first edge of the first *)
(* observed symbol, before it writes to the memory.                        *)
(***************************************************************************)
SupportedInputTypes == {"hard", "soft"}

InputTypes == {"hard", "HARD", "unquantized"}

ValueError(names) == [type |-> "ValueError", names |-> names]

\* a decoding loop that rolls the memory before it evaluates the first metric
DecoderStreamingRollFirst(m, observed_sequence, input_type, mem) ==
    IF observed_sequence # <<>> /\ input_type \notin SupportedInputTypes
    THEN [raised |-> TRUE,
          memory |-> [metrics |-> [st \in States(m) |-> Roll(mem.metrics[st])],
                      paths   |-> [st \in States(m) |-> Roll(mem.paths[st])]]]
    ELSE [raised |-> FALSE] @@ viterbi_streaming(m, observed_sequence, input_type, mem)

\* fsm.viterbi_streaming(observed_sequence, self.metric_function, self.memory)
DecoderStreaming(m, observed_sequence, input_type, mem) ==
    IF observed_sequence # <<>> /\ input_type \notin SupportedInputTypes
    THEN [raised |-> TRUE, memory |-> mem]
    ELSE [raised |-> FALSE] @@ viterbi_streaming(m, observed_sequence, input_type, mem)

InputTypeMachines ==
    {m \in StreamMachines :
        m.outputs = [st \in Range(2) |-> [x \in Range(2) |-> (st + x) % 2]]}
    \cup {DocMachine}

\* ConvolutionalStreamDecoder(convolutional_code, traceback_length, state, input_type)
InitInputType ==
    /\ fsm \in InputTypeMachines
    /\ \E traceback_length \in 1 .. MaxTau :
       \E state \in States(fsm) :
       \E input_type \in InputTypes :
            /\ decoder = [traceback_length |-> traceback_length, state |-> state,
                          input_type |-> input_type]
            /\ memory = InitialMemory(fsm, traceback_length, state)
    /\ call = [op |-> "construct"]
    /\ stream = NoStream
    /\ source = NoSource
    /\ strategy = NoStrategy

\* a call decoder(in0) on a decoder of any input_type
DecodeAnyType ==
    \E in0 \in BitSeqs(0, num_output_bits(fsm) * MaxChunk) :
        /\ Len(stream.absorbed) + (Len(in0) \div num_output_bits(fsm)) <= StreamLimit(fsm)
        /\ IF Len(in0) % num_output_bits(fsm) # 0
           THEN \* np.reshape raises ValueError
                /\ call' = [op |-> "decode", in0 |-> in0, raised |-> TRUE,
                            error |-> ValueError("shape")]
                /\ UNCHANGED <<memory, stream>>
           ELSE \E res \in {DecoderStreaming(fsm, Reshape(in0, num_output_bits(fsm)),
                                             decoder.input_type, memory)} :
                    /\ memory' = res.memory
                    /\ IF res.raised
                       THEN /\ call' = [op |-> "decode", in0 |-> in0, raised |-> TRUE,
                                        error |-> ValueError(decoder.input_type)]
                            /\ stream' = stream
                       ELSE /\ call' = [op |-> "decode", in0 |-> in0, raised |-> FALSE,
                                        out0 |-> unpack(res.input_sequences_hat,
                                                        num_input_bits(fsm))]
                            /\ stream' = [stream EXCEPT
                                    !.absorbed = @ \o Reshape(in0, num_output_bits(fsm)),
                                    !.emitted  = @ \o res.input_sequences_hat]
        /\ UNCHANGED <<fsm, decoder, source, strategy>>

NextInputType == DecodeAnyType

SpecInputType == InitInputType /\ [][NextInputType]_vars

Unsupported == decoder.input_type \notin SupportedInputTypes

MemoryUntouched == memory = InitialMemory(fsm, decoder.traceback_length, decoder.state)

\* the original statement of C20: on a decoder whose input_type is neither
\* "hard" nor "soft" every call fails with a ValueError naming the type, and
\* the decode memory is never modified
C20_EveryUseFails ==
    Unsupported =>
        /\ MemoryUntouched
        /\ call.op = "decode" =>
            /\ call.raised
            /\ call.error = ValueError(decoder.input_type)

(***************************************************************************)
(* C20: an unrecognized input_type fails on the first observed symbol. On  *)
(* a decoder whose input_type is neither "hard" nor "soft", every call     *)
(* whose input holds at least one whole observed symbol (a positive        *)
(* multiple of n values) fails with a ValueError naming the unsupported    *)
(* type; no call returns a decoded bit (the call on an empty input returns *)
(* an empty array, the call on a partial symbol fails in np.reshape), and  *)
(* the decode memory is never modified.                                    *)
(***************************************************************************)
C20_UnsupportedInputTypeFails ==
    Unsupported =>
        /\ MemoryUntouched
        /\ stream = NoStream
        /\ call.op = "decode" =>
            /\ (Len(call.in0) > 0 /\ Len(call.in0) % num_output_bits(fsm) = 0) =>
                    /\ call.raised
                    /\ call.error = ValueError(decoder.input_type)
            /\ Len(call.in0) % num_output_bits(fsm) # 0 => call.raised
            /\ ~call.raised => (call.in0 = <<>> /\ call.out0 = <<>>)

C20_Witness ==
    /\ Unsupported
    /\ call.op = "decode"
    /\ Len(call.in0) = num_output_bits(fsm) * MaxChunk
    /\ call.raised
    /\ call.error = ValueError(decoder.input_type)
    /\ MemoryUntouched

\* the empty call on an unsupported decoder returns
EmptyCallReturns ==
    /\ Unsupported
    /\ call.op = "decode"
    /\ call.in0 = <<>>
    /\ ~call.raised

(***************************************************************************)
(* The forward pass seen one step at a time: the metrics row the step at   *)
(* time t reads, the row and the decisions it writes, and the edges that   *)
(* attain the new metric of a state.                                       *)
(***************************************************************************)
\* metrics[t - 1, :] of the call: the row read by the step on z[t]
MetricsBefore(t) ==
    ViterbiForward(fsm, call.metric_function, SubSeq(call.observed_sequence, 1, t - 1),
                   call.initial_metrics, 0, <<>>).metrics

\* the numbers i of the edges EdgeOrder[i] = (s0, x) into s1 whose candidate
\* metric at the step on z equals the finite metric new_metrics[s1]
TyingEdges(m, mf, z, prev_metrics, new_metrics, s1) ==
    {i \in DOMAIN EdgeOrder(m) :
        \E s0 \in {EdgeOrder(m)[i][1]} : \E x \in {EdgeOrder(m)[i][2]} :
            /\ m.next_states[s0][x] = s1
            /\ new_metrics[s1] < Infinity
            /\ Add(prev_metrics[s0], metric_function(mf, m.outputs[s0][x], z))
                    = new_metrics[s1]}

\* at every step of the returned call and for every state some edge attains
\* the metric of, P(tying edge numbers, recorded decision) holds
FirstEdge(tying) == CHOOSE i \in tying : \A j \in tying : i <= j

LowestInput(m, tying) ==
    CHOOSE x \in {EdgeOrder(m)[i][2] : i \in tying} :
        \A j \in tying : x <= EdgeOrder(m)[j][2]

\* the original statement of C21: the recorded decision is the first tying
\* edge in enumeration order, and that edge carries the lowest-numbered input
\* symbol among the tying edges
C21_FirstEdgeHasLowestInput ==
    (call.op = "viterbi" /\ call.returned) =>
        \A t \in 1 .. Len(call.observed_sequence) :
        \A prev \in {MetricsBefore(t)} :
        \A step \in {ForwardStep(fsm, call.metric_function, call.observed_sequence[t],
                                 prev, 0)} :
        \A s1 \in States(fsm) :
        \A tying \in {TyingEdges(fsm, call.metric_function, call.observed_sequence[t],
                                 prev, step.metrics, s1)} :
            tying # {} =>
                /\ step.choices[s1] = EdgeOrder(fsm)[FirstEdge(tying)][1]
                /\ EdgeOrder(fsm)[FirstEdge(tying)][2] = LowestInput(fsm, tying)

(***************************************************************************)
(* C21: Viterbi tie-breaking. In the forward pass, when several incoming   *)
(* edges of a state s1 attain the same minimum candidate metric at step t, *)
(* the recorded decision for (t, s1) is the origin state of the first of   *)
(* them in edge enumeration order (states ascending, input symbols         *)
(* ascending within a state): the lowest-numbered tying predecessor state. *)
(* Among the tying edges that leave that state the first one has the       *)
(* lowest-numbered input symbol.                                           *)
(***************************************************************************)
C21_TieBreaking ==
    (call.op = "viterbi" /\ call.returned) =>
        \A t \in 1 .. Len(call.observed_sequence) :
        \A prev \in {MetricsBefore(t)} :
        \A step \in {ForwardStep(fsm, call.metric_function, call.observed_sequence[t],
                                 prev, 0)} :
        \A s1 \in States(fsm) :
        \A tying \in {TyingEdges(fsm, call.metric_function, call.observed_sequence[t],
                                 prev, step.metrics, s1)} :
            tying # {} =>
                /\ step.choices[s1] = EdgeOrder(fsm)[FirstEdge(tying)][1]
                /\ \A j \in tying : step.choices[s1] <= EdgeOrder(fsm)[j][1]
                /\ \A j \in tying :
                    EdgeOrder(fsm)[j][1] = step.choices[s1] =>
                        EdgeOrder(fsm)[FirstEdge(tying)][2] <= EdgeOrder(fsm)[j][2]

\* a returned call in whose last step two edges from different states tie
\* into state 0
C21_Witness ==
    /\ call.op = "viterbi"
    /\ call.returned
    /\ Len(call.observed_sequence) = MaxObs
    /\ \E prev \in {MetricsBefore(MaxObs)} :
       \E step \in {ForwardStep(fsm, call.metric_function, call.observed_sequence[MaxObs],
                                prev, 0)} :
       \E tying \in {TyingEdges(fsm, call.metric_function, call.observed_sequence[MaxObs],
                                prev, step.metrics, 0)} :
            /\ \E i, j \in tying : EdgeOrder(fsm)[i][1] # EdgeOrder(fsm)[j][1]
            /\ step.choices[0] = 0

(***************************************************************************)
(* Two streaming decoders built on one machine. Each decoder makes its own *)
(* memory dictionary in __attrs_post_init__ and hands self.memory to       *)
(* viterbi_streaming; the machine's tables are only read. The per-symbol   *)
(* iterations of the two decoders interleave in any order, and process,    *)
(* viterbi and forward_backward are called on the same machine meanwhile.  *)
(***************************************************************************)
Decoders == {1, 2}

\* a memory shared by all decoders: every decoder uses the first one's
MemoryOfFirst(d) == 1

\* self.memory of decoder d: the dictionary made by its own __attrs_post_init__
MemoryOf(d) == d

SharedMachines ==
    {m \in InputTypeMachines :
        m.next_states[0] = [x \in Range(2) |-> x] /\ m.next_states[1][1] = 1}
    \cup {DocMachine}

\* symbols one decoder absorbs
SharedLimit(m) == IF m = DocMachine THEN MaxTau - 1 ELSE MaxTau

InitShared ==
    /\ fsm \in SharedMachines
    /\ \E traceback_length \in 1 .. MaxTau :
       \E states \in [Decoders -> {0, num_states(fsm.next_states) - 1}] :
            /\ decoder = [d \in Decoders |->
                            [traceback_length |-> traceback_length, state |-> states[d],
                             input_type |-> "hard"]]
            /\ memory = [d \in Decoders |->
                            InitialMemory(fsm, traceback_length, states[d])]
    /\ stream = [d \in Decoders |-> [absorbed |-> <<>>, emitted |-> <<>>]]
    /\ call = NoCall
    /\ source = NoSource
    /\ strategy = NoStrategy

\* one iteration of the loop of viterbi_streaming in decoder d, on symbol z
SharedStep ==
    \E d \in Decoders :
    \E z \in BitSeqs(num_output_bits(fsm), num_output_bits(fsm)) :
        /\ Len(stream[d].absorbed) < SharedLimit(fsm)
        /\ \E one \in {StreamingStep(fsm, decoder[d].input_type, z, memory[MemoryOf(d)])} :
            /\ memory' = [memory EXCEPT ![MemoryOf(d)] = one.memory]
            /\ stream' = [stream EXCEPT ![d] =
                            [absorbed |-> Append(@.absorbed, z),
                             emitted  |-> Append(@.emitted, one.symbol)]]
        /\ UNCHANGED <<fsm, call, decoder, source, strategy>>

\* fsm.process on the symbols the first decoder has emitted, from its initial state
SharedProcess ==
    \E d \in {1} :
        /\ call' = [op |-> "process", of |-> d,
                    ret |-> ProcessLoopIndexed(fsm, stream[d].emitted, decoder[d].state, <<>>)]
        /\ UNCHANGED <<fsm, decoder, memory, stream, source, strategy>>

\* fsm.viterbi on the symbols the second decoder has absorbed
SharedViterbi ==
    \E d \in {2} :
    \E garbage \in Garbage(fsm) :
        /\ call' = [op |-> "viterbi", of |-> d,
                    ret |-> viterbi(fsm, stream[d].absorbed, decoder[d].input_type,
                                    DefaultMetrics(fsm), garbage)]
        /\ UNCHANGED <<fsm, decoder, memory, stream, source, strategy>>

\* fsm.forward_backward on the symbols the first decoder has absorbed, read as
\* integers
SharedForwardBackward ==
    \E d \in {1} :
        /\ stream[d].absorbed # <<>>
        /\ call' = [op |-> "forward_backward", of |-> d,
                    ret |-> forward_backward(fsm,
                                [t \in 1 .. Len(stream[d].absorbed) |->
                                    binlist2int(stream[d].absorbed[t])],
                                "noisy", None, None, None)]
        /\ UNCHANGED <<fsm, decoder, memory, stream, source, strategy>>

NextShared == SharedStep \/ SharedProcess \/ SharedViterbi \/ SharedForwardBackward

SpecShared == InitShared /\ [][NextShared]_vars

\* decoder d run alone on what it has absorbed, from its memory at construction
Alone(d) ==
    viterbi_streaming(fsm, stream[d].absorbed, decoder[d].input_type,
                      InitialMemory(fsm, decoder[d].traceback_length, decoder[d].state))

AsWhenAlone ==
    \A d \in Decoders : \A alone \in {Alone(d)} :
        /\ stream[d].emitted = alone.input_sequences_hat
        /\ memory[d] = alone.memory

TablesAsConstructed ==
    fsm = FiniteStateMachine(fsm.next_states, fsm.outputs)

C23_ViterbiTotal ==
    (call.op = "viterbi" /\ call.returned) =>
        /\ ~call.ret.raised
        /\ DOMAIN call.ret.final_metrics = States(fsm)
        /\ DOMAIN call.ret.input_sequences_hat = States(fsm)
        /\ \A s \in States(fsm) :
            /\ Len(call.ret.input_sequences_hat[s]) = Len(call.observed_sequence)
            /\ \A t \in 1 .. Len(call.observed_sequence) :
                call.ret.input_sequences_hat[s][t] \in Inputs(fsm)

\* the columns of the final states a finite-metric path reaches are input
\* sequences, whatever the unwritten cells of choices hold
ReachedColumnsAreInputs ==
    (call.op = "viterbi" /\ call.returned /\ ~call.ret.raised) =>
        \A s \in States(fsm) :
            call.ret.final_metrics[s] < Infinity =>
                \A t \in 1 .. Len(call.observed_sequence) :
                    call.ret.input_sequences_hat[s][t] \in Inputs(fsm)

\* the docstring machine pinned to start state 0 on one observed symbol: the
\* call raises IndexError, or returns -1 in the column of state 2
PinnedStartFails ==
    /\ fsm = DocMachine
    /\ call.op = "viterbi"
    /\ call.returned
    /\ Len(call.observed_sequence) = 1
    /\ call.initial_metrics = PinnedMetrics(fsm, 0)
    /\ \/ call.ret.raised
       \/ call.ret.input_sequences_hat[2][1] = -1

(***************************************************************************)
(* C24: direct truncation is causal. In DirectTruncation.generator_matrix, *)
(* for every block index t in [0, h) and every row r with                  *)
(* k0*t <= r < k0*(t+1), every entry in a column j < n0*t is 0, and every  *)
(* entry in a column j >= n0*t equals the corresponding entry of the base  *)
(* matrix: the encoding of the block-0 unit input r - k0*t, shifted right  *)
(* by n0*t columns. (Rows and columns are numbered from 1 below.)          *)
(***************************************************************************)
C24_DirectTruncationCausal ==
    (strategy.kind = "DirectTruncation" /\ call.op = "generator_matrix") =>
        \A k0 \in {strategy.convolutional_code.num_input_bits} :
        \A n0 \in {strategy.convolutional_code.num_output_bits} :
        \A base \in {base_generator_matrix(strategy, fsm)} :
        \A top_rows \in {[i \in 1 .. k0 |->
                            enc_mapping(strategy, fsm, Eye(k0, dimension(strategy))[i])]} :
            /\ Len(call.generator_matrix) = dimension(strategy)
            /\ \A t \in 0 .. (strategy.num_blocks - 1) :
               \A r \in (k0 * t + 1) .. (k0 * (t + 1)) :
                    /\ Len(call.generator_matrix[r]) = codeword_length(strategy)
                    /\ \A j \in 1 .. (n0 * t) : call.generator_matrix[r][j] = 0
                    /\ \A j \in (n0 * t + 1) .. codeword_length(strategy) :
                        /\ call.generator_matrix[r][j] = base[r][j]
                        /\ call.generator_matrix[r][j] = top_rows[r - k0 * t][j - n0 * t]

\* a matrix of several blocks in which the base matrix had a 1 before the
\* first column of a row's block and the row keeps a 1 inside its block
C24_Witness ==
    /\ strategy.kind = "DirectTruncation"
    /\ call.op = "generator_matrix"
    /\ strategy.num_blocks = MaxBlocks
    /\ \E r \in 1 .. dimension(strategy) :
        /\ \E j \in 1 .. (strategy.convolutional_code.num_output_bits
                            * ((r - 1) \div strategy.convolutional_code.num_input_bits)) :
            /\ base_generator_matrix(strategy, fsm)[r][j] = 1
            /\ call.generator_matrix[r][j] = 0
        /\ \E j \in 1 .. codeword_length(strategy) : call.generator_matrix[r][j] = 1

(***************************************************************************)
(* C25: codeword lengths and zero start. For every convolutional code and  *)
(* block count h, codeword_length() is h*n0 for DirectTruncation and for   *)
(* TailBiting and (h + mu)*n0 for ZeroTermination, and initial_state       *)
(* returns 0 for every input under DirectTruncation and ZeroTermination.   *)
(***************************************************************************)
C25_LengthsAndZeroStart ==
    /\ call.op = "codeword_length" =>
        /\ strategy.kind \in {"DirectTruncation", "TailBiting"} =>
            call.codeword_length =
                strategy.num_blocks * strategy.convolutional_code.num_output_bits
        /\ strategy.kind = "ZeroTermination" =>
            call.codeword_length =
                (strategy.num_blocks + strategy.convolutional_code.memory_order)
                    * strategy.convolutional_code.num_output_bits
    /\ (call.op = "enc_mapping"
            /\ strategy.kind \in {"DirectTruncation", "ZeroTermination"}) =>
        /\ call.initial_state = 0
        /\ initial_state(strategy, fsm, call.input_bits) = 0

\* a zero-terminated code with memory: its length exceeds h*n0
C25_Witness ==
    /\ strategy.kind = "ZeroTermination"
    /\ call.op = "codeword_length"
    /\ strategy.convolutional_code.memory_order > 0
    /\ strategy.num_blocks = MaxBlocks
    /\ call.codeword_length >
        strategy.num_blocks * strategy.convolutional_code.num_output_bits

\* the direct simulation yields codeword_length() bits
CodewordHasDeclaredLength ==
    call.op = "enc_mapping" => Len(call.codeword) = codeword_length(strategy)

\* a nonzero message encoded from state 0 under zero termination
ZeroStartReached ==
    /\ strategy.kind = "ZeroTermination"
    /\ call.op = "enc_mapping"
    /\ \E i \in DOMAIN call.input_bits : call.input_bits[i] = 1
    /\ call.initial_state = 0

(***************************************************************************)
(* The block dynamic program over what the decoder has absorbed, started   *)
(* from the last metrics column of the memory at construction.             *)
(***************************************************************************)
\* rows 1 .. t of the block forward pass over the first t absorbed symbols
BlockForward(t) ==
    ViterbiForward(fsm, decoder.input_type, SubSeq(stream.absorbed, 1, t),
                   PinnedMetrics(fsm, decoder.state), 0, <<>>)

\* the state j steps before s on the survivor path recorded in choices[1 .. L]
RECURSIVE SurvivorState(_, _, _, _)
SurvivorState(choices, L, s, j) ==
    IF j = 0 THEN s
    ELSE SurvivorState(choices, L - 1, choices[L][s], j - 1)

(***************************************************************************)
(* C26: the streaming buffers track the block dynamic program. Starting    *)
(* from a memory whose last metrics column is m0 and after absorbing       *)
(* z_0 .. z_{L-1} in any chunking, metrics[:, tau - j] equals the block    *)
(* Viterbi metric row at time L - j computed with initial metrics m0, for  *)
(* every 0 <= j <= min(tau, L), and for every state s with finite latest   *)
(* metric and every 0 <= j <= min(tau, L - 1), paths[s, tau - j] is the    *)
(* state at time L - j on the block Viterbi survivor path ending in s.     *)
(***************************************************************************)
C26_BuffersTrackBlock ==
    \A tau \in {decoder.traceback_length} :
    \A L \in {Len(stream.absorbed)} :
        /\ \A j \in 0 .. Min(tau, L) :
           \A row \in {BlockForward(L - j).metrics} :
           \A s \in States(fsm) :
                memory.metrics[s][tau - j] = row[s]
        /\ \A block \in {BlockForward(L)} :
           \A s \in States(fsm) :
                memory.metrics[s][tau] < Infinity =>
                    \A j \in 0 .. Min(tau, L - 1) :
                        memory.paths[s][tau - j] = SurvivorState(block.choices, L, s, j)

\* the buffer is full of absorbed steps and two states with finite metric
\* descend from different states one step back
C26_Witness ==
    /\ Len(stream.absorbed) > decoder.traceback_length
    /\ call.op = "decode"
    /\ \E s, s2 \in States(fsm) :
        /\ memory.metrics[s][decoder.traceback_length] < Infinity
        /\ memory.metrics[s2][decoder.traceback_length] < Infinity
        /\ memory.paths[s][decoder.traceback_length - 1] # s
        /\ memory.paths[s][decoder.traceback_length - 1]
                # memory.paths[s2][decoder.traceback_length - 1]

\* one call of the decoder, from its state at construction, on everything absorbed
SingleCall ==
    viterbi_streaming(fsm, stream.absorbed, decoder.input_type,
                      InitialMemory(fsm, decoder.traceback_length, decoder.state))

(***************************************************************************)
(* C27: chunking invariance of the streaming decoder. For every decoder    *)
(* state and all observed sequences a and b, calling the decoder on a and  *)
(* then on b emits the concatenation of exactly what one call on a         *)
(* followed by b emits, and leaves the memory (metrics and paths) equal to *)
(* the memory after that single call. Stated on the whole history: however *)
(* the absorbed symbols were split into calls, what was emitted and the    *)
(* memory reached are those of a single call on all of them.               *)
(***************************************************************************)
C27_ChunkingInvariance ==
    \A single \in {SingleCall} :
        /\ stream.emitted = single.input_sequences_hat
        /\ memory = single.memory
        /\ (call.op = "decode" /\ ~call.raised) =>
            call.input_sequence_hat =
                SubSeq(single.input_sequences_hat,
                       Len(stream.emitted) - Len(call.input_sequence_hat) + 1,
                       Len(stream.emitted))

\* the symbols were absorbed in more than one non-empty call and the last call
\* emitted a symbol a decoder fresh from construction would not emit on it
C27_Witness ==
    /\ call.op = "decode"
    /\ ~call.raised
    /\ call.in0 # <<>>
    /\ Len(call.in0) < num_output_bits(fsm) * Len(stream.absorbed)
    /\ Len(stream.absorbed) > decoder.traceback_length
    /\ call.input_sequence_hat #
        viterbi_streaming(fsm, Reshape(call.in0, num_output_bits(fsm)), decoder.input_type,
                          InitialMemory(fsm, decoder.traceback_length, decoder.state))
            .input_sequences_hat

RowsEndInOwnState ==
    \A s \in States(fsm) :
        memory.metrics[s][decoder.traceback_length] < Infinity =>
            memory.paths[s][decoder.traceback_length] = s

PathEntriesAreStates ==
    \A s \in States(fsm) : \A j \in 0 .. decoder.traceback_length :
        memory.paths[s][j] \in States(fsm)

(***************************************************************************)
(* C28: path rows end in their own state. In every reachable state of a    *)
(* ConvolutionalStreamDecoder, including the state right after             *)
(* construction with any initial state value, every state s whose latest   *)
(* metric metrics[s, tau] is finite has paths[s, tau] = s, and every entry *)
(* of paths is a state index in [0, S).                                    *)
(***************************************************************************)
C28_PathRowsEndInOwnState == RowsEndInOwnState /\ PathEntriesAreStates

\* what holds: the entries are always state indices, and the rows end in their
\* own state once a symbol has been absorbed or when the initial state is 0
RowsEndInOwnStateAfterFirstSymbol ==
    /\ PathEntriesAreStates
    /\ (stream.absorbed # <<>> \/ decoder.state = 0) => RowsEndInOwnState

\* right after construction with initial state 1 the row of state 1 ends in 0
ConstructedRowEndsInZero ==
    /\ call.op = "construct"
    /\ decoder.state = 1
    /\ memory.metrics[1][decoder.traceback_length] = 0
    /\ memory.paths[1][decoder.traceback_length] = 0

(***************************************************************************)
(* C29: decoded symbols are input symbols. For a decoder constructed with  *)
(* any traceback length tau >= 1 and any initial state, and a metric that  *)
(* is finite on every (output, observation) pair, every symbol emitted at  *)
(* a step t >= tau (counted from construction) is an input symbol in       *)
(* [0, X), never the 'no edge' marker -1: the two states read from the     *)
(* path buffer at that step are always joined by an edge of the machine.   *)
(***************************************************************************)
C29_DecodedSymbolsAreInputs ==
    \A t \in (decoder.traceback_length + 1) .. Len(stream.emitted) :
        stream.emitted[t] \in Inputs(fsm)

\* the same for a decoder started in state 0
DecodedSymbolsAreInputsFromZero ==
    decoder.state = 0 => C29_DecodedSymbolsAreInputs

\* the docstring machine, tau = 1, initial state 0, observed 11 then 10: the
\* symbol emitted at step 1 is -1
NoEdgeEmittedFromZero ==
    /\ fsm = DocMachine
    /\ decoder.traceback_length = 1
    /\ decoder.state = 0
    /\ stream.absorbed = <<<<1, 1>>, <<1, 0>>>>
    /\ stream.emitted[2] = -1

(***************************************************************************)
(* viterbi_streaming with a metric function that raises on some observed   *)
(* symbols. The loop calls metric_function on the first edge of iteration  *)
(* t before that iteration writes anything; the iterations before t have   *)
(* already updated the caller's memory dictionary in place.                *)
(***************************************************************************)
\* a value the metric function does not accept as a received bit
Erasure == 2

\* the metric function of the caller: the hard metric, raising on an erasure
MetricRaises(z) == \E i \in 1 .. Len(z) : z[i] = Erasure

\* for t, z in enumerate(observed_sequence), the exception leaving the loop
RECURSIVE StreamingLoopRaising(_, _, _, _, _, _)
StreamingLoopRaising(m, mf, observed_sequence, mem, input_sequences_hat, t) ==
    IF observed_sequence = <<>>
    THEN [raised |-> FALSE, memory |-> mem, input_sequences_hat |-> input_sequences_hat]
    ELSE IF MetricRaises(Head(observed_sequence))
    THEN [raised |-> TRUE, memory |-> mem, failed_at |-> t]
    ELSE CHOOSE result \in
            { StreamingLoopRaising(m, mf, Tail(observed_sequence), one.memory,
                                   Append(hat, one.symbol), t + 1) :
              one \in {StreamingStep(m, mf, Head(observed_sequence), mem)},
              hat \in {input_sequences_hat} } : TRUE

\* observed symbols: n received bits, or n erasures
ObservedSymbols(m) ==
    BitSeqs(num_output_bits(m), num_output_bits(m))
    \cup {[i \in 1 .. num_output_bits(m) |-> Erasure]}

InitStreamFail ==
    /\ fsm \in InputTypeMachines
    /\ \E traceback_length \in 1 .. MaxTau :
       \E state \in States(fsm) :
            /\ decoder = [traceback_length |-> traceback_length, state |-> state,
                          input_type |-> "hard"]
            /\ memory = InitialMemory(fsm, traceback_length, state)
    /\ call = [op |-> "construct"]
    /\ stream = NoStream
    /\ source = NoSource
    /\ strategy = NoStrategy

\* a call fsm.viterbi_streaming(observed_sequence, metric_function, memory);
\* call.before keeps the memory the call started from (history only)
DecodeChecked ==
    \E observed_sequence \in SeqsUpTo(ObservedSymbols(fsm), MaxChunk) :
        /\ Len(stream.absorbed) + Len(observed_sequence) <= StreamLimit(fsm)
        /\ \E res \in {StreamingLoopRaising(fsm, decoder.input_type, observed_sequence,
                                            memory, <<>>, 0)} :
            /\ memory' = res.memory
            /\ IF res.raised
               THEN /\ call' = [op |-> "decode", observed_sequence |-> observed_sequence,
                                raised |-> TRUE, failed_at |-> res.failed_at,
                                before |-> memory]
                    /\ stream' = [stream EXCEPT
                            !.absorbed = @ \o SubSeq(observed_sequence, 1, res.failed_at)]
               ELSE /\ call' = [op |-> "decode", observed_sequence |-> observed_sequence,
                                raised |-> FALSE, before |-> memory,
                                input_sequence_hat |-> res.input_sequences_hat]
                    /\ stream' = [stream EXCEPT
                            !.absorbed = @ \o observed_sequence,
                            !.emitted  = @ \o res.input_sequences_hat]
        /\ UNCHANGED <<fsm, decoder, source, strategy>>

NextStreamFail == DecodeChecked

SpecStreamFail == InitStreamFail /\ [][NextStreamFail]_vars

(***************************************************************************)
(* C30: a failed streaming call is all-or-nothing. If a call of the        *)
(* streaming decoder on an observed sequence fails at the observed symbol  *)
(* of index t (for instance because the metric function raises on that     *)
(* symbol), no decoded symbols are returned and the decode memory (metrics *)
(* and paths) is exactly what it was before the call, so that the caller   *)
(* may retry with a corrected sequence.                                    *)
(***************************************************************************)
C30_FailedCallAllOrNothing ==
    (call.op = "decode" /\ call.raised) =>
        /\ "input_sequence_hat" \notin DOMAIN call
        /\ memory = call.before

\* what holds: nothing is returned, and the memory is the one reached by the
\* symbols before the failing one; it is the memory before the call only when
\* the first symbol fails
FailedCallKeepsAbsorbedSymbols ==
    (call.op = "decode" /\ call.raised) =>
        /\ "input_sequence_hat" \notin DOMAIN call
        /\ memory = viterbi_streaming(fsm, SubSeq(call.observed_sequence, 1, call.failed_at),
                                      decoder.input_type, call.before).memory
        /\ call.failed_at = 0 => memory = call.before

\* a call that failed at its second symbol and left the memory changed
FailedCallChangedMemory ==
    /\ call.op = "decode"
    /\ call.raised
    /\ call.failed_at = 1
    /\ memory # call.before

====
